---- MODULE Spec2Model ----
(***************************************************************************)
(* The MCP client Session of crates/mcp-client/src/session.rs: callers     *)
(* that run rpc_call / send_notification / shutdown concurrently, the      *)
(* background loop that selects over the shutdown channel, the outgoing    *)
(* channel and the transport's read stream, and the transport as the       *)
(* environment of the session (the peer that produces inbound items, the   *)
(* ends of the read and write streams).                                    *)
(***************************************************************************)
EXTENDS Naturals, Sequences, FiniteSets

\* ------------------------------------------------------------------ bounds

\* Caller tasks; each one invokes one operation of the Session.
NumCallers == 2

\* Concurrent calls of service.call(message) on clones of one TransportService.
NumServiceCalls == 3

\* How many tools are registered with one RouterBuilder at most.
MaxRegistrations == 3

\* How many tasks use one StdioTransport, and how many operations they invoke
\* on it altogether.
NumUsers == 2
MaxOps == 3

\* How many messages a client of the subprocess transport writes to its write
\* stream.
MaxFrames == 2

\* How many events the peer of the SSE transport puts on the event stream.
MaxEvents == 2

\* ------------------------------------------------------- program constants

\* mpsc::channel::<OutgoingMessage>(32)
RequestChannelCapacity == 32

\* mpsc::channel::<()>(1)
ShutdownChannelCapacity == 1

\* id_counter: AtomicU64::new(1)
FirstId == 1

Callers == 1..NumCallers

\* The tasks that use the StdioTransport and the processes it may spawn: each
\* start spawns at most one.
Users == 1..NumUsers
Processes == 1..MaxOps

\* Calls of the TransportService, each on its own task.
ServiceCalls == 1..NumServiceCalls

\* ------------------------------------------------------------------- state

VARIABLES
    is_closed,         \* Session.is_closed (AtomicBool)
    id_counter,        \* Session.id_counter (AtomicU64)
    request_q,         \* contents of the request_tx/request_rx channel
    shutdown_q,        \* number of () queued on shutdown_tx/shutdown_rx
    task_handle,       \* background_task holds Some(JoinHandle)
    task_lock,         \* holder of the background_task mutex, 0 when free
    loop,              \* the background task: "select", "forward", "stopped"
    read_disabled,     \* this select! polled the read stream and got None
    outgoing,          \* the OutgoingMessage the loop took and has not yet forwarded
    pending_requests,  \* the loop's Vec<(u64, Sender)>
    read_stream,       \* items buffered on the transport's read stream
    read_open,         \* some sender of the read stream is still alive
    write_stream,      \* messages the write stream has accepted, in order
    pc,                \* per caller: the place its operation has reached
    op,                \* per caller: the operation it invoked
    req_id,            \* per caller: the id its rpc_call obtained ({} when none)
    response_rx,       \* per caller: the outcomes sent on its response channel
    result,            \* per caller: what the operation returned
    parked_at_shutdown,\* history: the callers parked in the pending list when
                       \* shutdown() closed the open session
    called_on_stopped, \* history: the callers that invoked shutdown() when the
                       \* background loop had already stopped
    accepted,          \* history: the messages request_tx.send accepted, in order
    initialized,       \* TransportServiceInner.initialized (AtomicBool)
    router,            \* TransportServiceInner.router: 0 for None, else the
                       \* number of the MessageRouter it holds
    router_guard,      \* holder of the router mutex, 0 when free
    start_calls,       \* how many times transport.start() was called
    routers_created,   \* how many times MessageRouter::new was called
    service_pc,        \* per call of the service: the place it has reached
    service_router,    \* per call: the router ensure_initialized returned, 0 for none
    service_result,    \* per call: what ensure_initialized returned
    builder_tools,     \* RouterBuilder.tools: the handlers by name
    builder_prompts,   \* RouterBuilder.prompts: {} for None, else {list_changed}
    builder_resources, \* RouterBuilder.resources: {} for None, else {<<subscribe, list_changed>>}
    registered,        \* history: the handlers given to with_tool / with_tools, in order
    built,             \* build() has consumed the builder and returned the Router
    capabilities,      \* Router.capabilities
    tools,             \* Router.tools: the handlers by name
    request,           \* the request of the router's latest call
    reply,             \* what that call returned
    called,            \* the handlers that call invoked, each with what it returned
    child,             \* StdioTransport.child: 0 for None, else the process it holds
    stdin,             \* StdioTransport.stdin: 0 for None, else the process whose stdin it is
    stdout,            \* StdioTransport.stdout: 0 for None, else the process whose stdout it is
    child_lock,        \* holder of the child mutex, 0 when free
    stdin_lock,        \* holder of the stdin mutex, 0 when free
    stdout_lock,       \* holder of the stdout mutex, 0 when free
    spawned,           \* how many processes cmd.spawn() has started
    proc,              \* per process: "none", "running" or "exited"
    stdin_pipe,        \* per process: the lines written to its stdin and not yet read
    stdout_pipe,       \* per process: the lines it wrote and the transport has not read
    user_pc,           \* per task: the place its operation has reached
    user_op,           \* per task: the operation it invoked
    user_msg,          \* per task: the argument of its send
    user_child,        \* per task: the process its start spawned or its close waits for
    user_result,       \* per task: what its operation returned
    user_line,         \* per task: the line its receive returned
    invoked,           \* how many operations were invoked
    lifecycle,         \* history: "new", then "started" after a start that returned
                       \* Ok and "closed" after a close that returned Ok
    peer,              \* the child of connect: "running" or "exited"
    peer_stdin,        \* the lines written to the child's stdin and not yet read by it
    peer_stdout,       \* the lines the child wrote and the reader task has not read
    monitor,           \* monitor_child: "wait", "send" or "done"
    reader,            \* the stdout reader task: "next_line", "send" or "done"
    reader_line,       \* the line the reader task has read and not yet passed on
    writer,            \* the stdin writer task: "recv", "write" or "done"
    writer_msg,        \* the message the writer task has received and not yet written
    taken,             \* how many items of the write stream the writer task has received
    terminated_sent,   \* history: how many ChildTerminated were put on the read stream
    received,          \* history: the items a client took from the read stream, in order
    handle_dropped,    \* the Session value was dropped: request_tx and shutdown_tx are gone
    sse_connect,       \* SSETransport::connect: "new", "connected" or "failed"
    sse_stream,        \* the events of the event stream handle_sse_events has not read
    sse_emitted,       \* how many events the peer has put on the event stream
    sse_handler,       \* handle_sse_events: "idle", "reading", "failed" or "ended"
    endpoint_url,      \* SSETransport.endpoint_url: {} (None) or {url}
    sse_read,          \* the read stream of the SSE transport
    sse_write,         \* the write stream of the SSE transport
    sse_sent,          \* how many messages the client has written to the write stream
    sse_message,       \* the message the POST handler has taken and not yet handled
    posted,            \* history: the POST requests made, <<url, message>> each, in order
    discarded,         \* history: how many messages were taken with no endpoint stored
    from_closed        \* history, per task: "new" or "closed" when its close began
                       \* on a transport without child and handles, in that stage of
                       \* its life and with no start under way; "no" otherwise

vars == <<is_closed, id_counter, request_q, shutdown_q, task_handle, task_lock,
          loop, read_disabled, outgoing, pending_requests, read_stream, read_open,
          write_stream, pc, op, req_id, response_rx, result, parked_at_shutdown,
          called_on_stopped, accepted, initialized, router, router_guard,
          start_calls, routers_created, service_pc, service_router, service_result,
          builder_tools, builder_prompts, builder_resources, registered, built,
          capabilities, tools, request, reply, called,
          child, stdin, stdout, child_lock, stdin_lock, stdout_lock, spawned, proc,
          stdin_pipe, stdout_pipe, user_pc, user_op, user_msg, user_child,
          user_result, user_line, invoked, lifecycle, from_closed,
          peer, peer_stdin, peer_stdout, monitor, reader, reader_line, writer,
          writer_msg, taken, terminated_sent, received,
          sse_connect, sse_stream, sse_emitted, sse_handler, endpoint_url, sse_read,
          sse_write, sse_sent, sse_message, posted, discarded, handle_dropped>>

\* The history variables record what happened; no action reads them.
history_vars == <<parked_at_shutdown, called_on_stopped, accepted>>

session_vars == <<is_closed, id_counter, request_q, shutdown_q, task_handle, task_lock,
                  history_vars>>
loop_vars == <<loop, read_disabled, outgoing, pending_requests>>
transport_vars == <<read_stream, read_open, write_stream>>
caller_vars == <<pc, op, req_id, response_rx, result>>

\* The TransportService of service.rs; the Session does not use it.
service_vars == <<initialized, router, router_guard, start_calls, routers_created,
                  service_pc, service_router, service_result>>

\* The Session and its transport.
session_side == <<session_vars, loop_vars, transport_vars, caller_vars>>

\* The RouterBuilder and the Router of the server.
server_vars == <<builder_tools, builder_prompts, builder_resources, registered, built,
                 capabilities, tools, request, reply, called>>

\* The StdioTransport of transport/stdio.rs, its child processes and the
\* tasks that use it.
handle_vars == <<child, stdin, stdout>>
lock_vars == <<child_lock, stdin_lock, stdout_lock>>
process_vars == <<spawned, proc, stdin_pipe, stdout_pipe>>
user_vars == <<user_pc, user_op, user_msg, user_child, user_result, user_line, invoked>>
stdio_vars == <<handle_vars, lock_vars, process_vars, user_vars, lifecycle, from_closed>>

\* The tasks connect of stdio_transport.rs spawns, and the child.
connect_vars == <<peer, peer_stdin, peer_stdout, monitor, reader, reader_line, writer,
                  writer_msg, taken, terminated_sent, received>>

\* The SSE transport (mcpclient/src/sse_transport.rs).
sse_vars == <<sse_connect, sse_stream, sse_emitted, sse_handler, endpoint_url, sse_read,
              sse_write, sse_sent, sse_message, posted, discarded>>

\* What the actions of one component leave alone: the other components. The
\* tasks of connect share the read and the write stream with the Session.
not_session == <<service_vars, server_vars, stdio_vars, connect_vars, sse_vars,
                 handle_dropped>>
not_service == <<session_side, server_vars, stdio_vars, connect_vars, sse_vars,
                 handle_dropped>>
not_server == <<session_side, service_vars, stdio_vars, connect_vars, sse_vars,
                handle_dropped>>
not_stdio == <<session_side, service_vars, server_vars, connect_vars, sse_vars,
               handle_dropped>>
not_connect == <<session_vars, loop_vars, caller_vars, service_vars, server_vars,
                 stdio_vars, sse_vars, handle_dropped>>
not_sse == <<session_side, service_vars, server_vars, stdio_vars, connect_vars,
             handle_dropped>>

\* --------------------------------------------------------------- messages

\* Option<u64> is a set with at most one element.
Request(id) == [type |-> "Request", id |-> {id}, payload |-> "params"]
Notification == [type |-> "Notification", id |-> {}, payload |-> "params"]
Response(id, payload) == [type |-> "Response", id |-> id, payload |-> payload]
ReadErr(kind) == [type |-> "Err", id |-> {}, payload |-> kind]

ReadErrorKinds == {"InvalidMessage", "TransportClosed", "ChildTerminated", "Unknown"}

\* The detail string a ChildTerminated / InvalidMessage / Unknown error carries.
Detail == "detail"

\* Display of ReadError (thiserror #[error(...)] attributes).
ReadErrorToString(kind) ==
    CASE kind = "InvalidMessage" -> "Invalid JSON message: " \o Detail
      [] kind = "TransportClosed" -> "Transport connection was closed"
      [] kind = "ChildTerminated" -> "Child process terminated: " \o Detail
      [] OTHER -> "Unknown read error: " \o Detail

\* Result<Option<JsonRpcResponse>> sent on a caller's response channel.
OkSome(response) == [ok |-> TRUE, response |-> {response}, error |-> ""]
OkNone == [ok |-> TRUE, response |-> {}, error |-> ""]
Err(message) == [ok |-> FALSE, response |-> {}, error |-> message]

OutgoingMessage(message, c) == [message |-> message, response_tx |-> c]

\* What the peer may put on the read stream: Responses with or without an id
\* (issued, not yet issued or never issued), inbound Notifications, a frame of
\* another shape, and the read errors.
ResponseIds == {{}} \cup {{i} : i \in FirstId..(FirstId + NumCallers)}
\* The (error, result) pair of a Response: a result that deserializes into the
\* type the caller asked for, an error object, neither.
ResponsePayloads == {"result", "error", "empty"}

\* The pairs a well-behaved peer does not send: a result that does not
\* deserialize into the type the caller asked for, an error object together
\* with a result.
OddResponsePayloads == {"bad_result", "both"}
InboundItems ==
    {Response(i, p) : i \in ResponseIds, p \in ResponsePayloads}
    \cup {Notification, Request(FirstId)}
    \cup {ReadErr(k) : k \in ReadErrorKinds}

OddInboundItems == {Response(i, p) : i \in ResponseIds, p \in OddResponsePayloads}

\* ------------------------------------------------------------------- Init

Init ==
    /\ is_closed = FALSE
    /\ id_counter = FirstId
    /\ request_q = <<>>
    /\ shutdown_q = 0
    /\ task_handle = TRUE
    /\ task_lock = 0
    /\ loop = "select"
    /\ read_disabled = FALSE
    /\ outgoing = <<>>
    /\ pending_requests = <<>>
    /\ read_stream = <<>>
    /\ read_open = TRUE
    /\ write_stream = <<>>
    /\ pc = [c \in Callers |-> "idle"]
    /\ op = [c \in Callers |-> "none"]
    /\ req_id = [c \in Callers |-> {}]
    /\ response_rx = [c \in Callers |-> <<>>]
    /\ result = [c \in Callers |-> "none"]
    /\ parked_at_shutdown = {}
    /\ called_on_stopped = {}
    /\ accepted = <<>>
    /\ initialized = FALSE
    /\ router = 0
    /\ router_guard = 0
    /\ start_calls = 0
    /\ routers_created = 0
    /\ service_pc = [c \in ServiceCalls |-> "idle"]
    /\ service_router = [c \in ServiceCalls |-> 0]
    /\ service_result = [c \in ServiceCalls |-> "none"]
    /\ builder_tools = {}
    /\ builder_prompts = {}
    /\ builder_resources = {}
    /\ registered = <<>>
    /\ built = FALSE
    /\ capabilities = [tools |-> {}, prompts |-> {}, resources |-> {}]
    /\ tools = {}
    /\ request = [id |-> {}, method |-> "none", params |-> [present |-> FALSE, name |-> {}]]
    /\ reply = [ok |-> TRUE, response |-> {}, error |-> ""]
    /\ called = {}
    /\ child = 0
    /\ stdin = 0
    /\ stdout = 0
    /\ child_lock = 0
    /\ stdin_lock = 0
    /\ stdout_lock = 0
    /\ spawned = 0
    /\ proc = [k \in Processes |-> "none"]
    /\ stdin_pipe = [k \in Processes |-> <<>>]
    /\ stdout_pipe = [k \in Processes |-> <<>>]
    /\ user_pc = [u \in Users |-> "idle"]
    /\ user_op = [u \in Users |-> "none"]
    /\ user_msg = [u \in Users |-> ""]
    /\ user_child = [u \in Users |-> 0]
    /\ user_result = [u \in Users |-> "none"]
    /\ user_line = [u \in Users |-> <<>>]
    /\ invoked = 0
    /\ lifecycle = "new"
    /\ from_closed = [u \in Users |-> "no"]
    /\ peer = "running"
    /\ peer_stdin = <<>>
    /\ peer_stdout = <<>>
    /\ monitor = "wait"
    /\ reader = "next_line"
    /\ reader_line = <<>>
    /\ writer = "recv"
    /\ writer_msg = <<>>
    /\ taken = 0
    /\ terminated_sent = 0
    /\ received = <<>>
    /\ sse_connect = "new"
    /\ sse_stream = <<>>
    /\ sse_emitted = 0
    /\ sse_handler = "idle"
    /\ endpoint_url = {}
    /\ sse_read = <<>>
    /\ sse_write = <<>>
    /\ sse_sent = 0
    /\ sse_message = <<>>
    /\ posted = <<>>
    /\ discarded = 0
    /\ handle_dropped = FALSE

\* ---------------------------------------------------------------- helpers

\* tx.send(outcome) on a caller's response channel: it fails, and is ignored,
\* when the receiver is gone (the caller is no longer in send_message).
SendTo(rx, c, outcome) ==
    IF pc[c] = "wait" THEN [rx EXCEPT ![c] = Append(@, outcome)] ELSE rx

\* Some response_tx of caller c is still alive: in the outgoing channel, in the
\* loop's hand or in the pending list.
TxAlive(c) ==
    \/ \E i \in 1..Len(request_q) : request_q[i].response_tx = c
    \/ \E i \in 1..Len(outgoing) : outgoing[i].response_tx = c
    \/ \E i \in 1..Len(pending_requests) : pending_requests[i][2] = c

\* The caller's operation returns r; its response channel, if it had one, is
\* dropped with it.
Return(c, r) ==
    /\ pc' = [pc EXCEPT ![c] = "done"]
    /\ result' = [result EXCEPT ![c] = r]
    /\ response_rx' = [response_rx EXCEPT ![c] = <<>>]

RemoveAt(s, pos) == SubSeq(s, 1, pos - 1) \o SubSeq(s, pos + 1, Len(s))


\* ------------------------------------------------------- the loop's helpers

RECURSIVE SendAll(_, _, _)
SendAll(rx, pend, outcome) ==
    IF pend = <<>> THEN rx
    ELSE SendAll(SendTo(rx, Head(pend)[2], outcome), Tail(pend), outcome)

RECURSIVE SendUntilDropped(_, _, _)
SendUntilDropped(rx, pend, outcome) ==
    IF pend = <<>> \/ pc[Head(pend)[2]] # "wait" THEN rx
    ELSE SendUntilDropped(SendTo(rx, Head(pend)[2], outcome), Tail(pend), outcome)

\* A faulty notify_pending_requests: tx.send(..).await? in the drain loop, which
\* returns at the first waiter that is gone and drops the rest unnotified.
notify_pending_requests_until_dropped(error_message) ==
    /\ response_rx' = SendUntilDropped(response_rx, pending_requests, Err(error_message))
    /\ pending_requests' = <<>>

\* A faulty notify_pending_requests: iter() where drain(..) should be, every
\* waiter gets its Err(error_message) and stays in the pending list.
notify_pending_requests_iter(error_message) ==
    /\ response_rx' = SendAll(response_rx, pending_requests, Err(error_message))
    /\ pending_requests' = pending_requests

\* notify_pending_requests: drain the pending list, one Err(error_message) each.
notify_pending_requests(error_message) ==
    /\ response_rx' = SendAll(response_rx, pending_requests, Err(error_message))
    /\ pending_requests' = <<>>

\* A faulty handle_write_error: TransportClosed is only logged, like the other
\* two kinds.
handle_write_error_log_only(error) ==
    UNCHANGED <<is_closed, pending_requests, response_rx>>

\* A faulty handle_write_error: it fails the pending requests and leaves the
\* closed flag alone.
handle_write_error_no_store(error) ==
    IF error = "TransportClosed"
    THEN /\ notify_pending_requests("Transport closed")
         /\ UNCHANGED is_closed
    ELSE UNCHANGED <<is_closed, pending_requests, response_rx>>

\* handle_write_error: only TransportClosed closes the session and fails the
\* pending requests.
handle_write_error(error) ==
    IF error = "TransportClosed"
    THEN /\ is_closed' = TRUE
         /\ notify_pending_requests("Transport closed")
    ELSE UNCHANGED <<is_closed, pending_requests, response_rx>>

\* A faulty handle_read_error: the pending requests are failed with one fixed
\* text instead of error.to_string().
handle_read_error_fixed_text(error, fatal) ==
    IF error \in {"TransportClosed", "ChildTerminated"}
    THEN /\ is_closed' = TRUE
         /\ notify_pending_requests("Transport closed")
         /\ fatal = TRUE
    ELSE /\ UNCHANGED <<is_closed, pending_requests, response_rx>>
         /\ fatal = FALSE

\* A faulty handle_read_error: every read error is fatal.
handle_read_error_all_fatal(error, fatal) ==
    /\ is_closed' = TRUE
    /\ notify_pending_requests(ReadErrorToString(error))
    /\ fatal = TRUE

\* A faulty handle_read_error: a read error it survives marks the session
\* open again.
handle_read_error_reopens(error, fatal) ==
    IF error \in {"TransportClosed", "ChildTerminated"}
    THEN /\ is_closed' = TRUE
         /\ notify_pending_requests(ReadErrorToString(error))
         /\ fatal = TRUE
    ELSE /\ is_closed' = FALSE
         /\ UNCHANGED <<pending_requests, response_rx>>
         /\ fatal = FALSE

\* handle_read_error: `fatal` is the value it returns.
handle_read_error(error, fatal) ==
    IF error \in {"TransportClosed", "ChildTerminated"}
    THEN /\ is_closed' = TRUE
         /\ notify_pending_requests(ReadErrorToString(error))
         /\ fatal = TRUE
    ELSE /\ UNCHANGED <<is_closed, pending_requests, response_rx>>
         /\ fatal = FALSE

\* pending_requests.iter().position(|(req_id, _)| *req_id == id)
Position(id) ==
    LET hits == {i \in 1..Len(pending_requests) : pending_requests[i][1] = id}
    IN  IF hits = {} THEN {} ELSE {CHOOSE i \in hits : \A j \in hits : i <= j}

\* A faulty handle_response_message: it finds the waiter by id and delivers,
\* but leaves the entry in the pending list (iter().find() without remove()).
handle_response_message_keep(response) ==
    IF \E id \in response.id : Position(id) # {}
    THEN \E id \in response.id : \E pos \in Position(id) :
            /\ response_rx' = SendTo(response_rx, pending_requests[pos][2], OkSome(response))
            /\ pending_requests' = pending_requests
    ELSE UNCHANGED <<pending_requests, response_rx>>

\* A faulty handle_response_message: position(..).unwrap_or(0), so a Response
\* that matches no entry goes to the oldest waiter.
handle_response_message_or_first(response) ==
    LET hit == UNION {Position(id) : id \in response.id}
        pos == IF hit # {} THEN hit ELSE IF pending_requests # <<>> THEN {1} ELSE {}
    IN  IF pos # {}
        THEN \E i \in pos :
                /\ response_rx' = SendTo(response_rx, pending_requests[i][2], OkSome(response))
                /\ pending_requests' = RemoveAt(pending_requests, i)
        ELSE UNCHANGED <<pending_requests, response_rx>>

\* A faulty handle_response_message: correlation by arrival order, the
\* Response goes to the oldest waiter whatever its id.
handle_response_message_by_arrival(response) ==
    IF response.id # {} /\ pending_requests # <<>>
    THEN /\ response_rx' = SendTo(response_rx, pending_requests[1][2], OkSome(response))
         /\ pending_requests' = Tail(pending_requests)
    ELSE UNCHANGED <<pending_requests, response_rx>>

\* handle_response_message: deliver to the waiter parked under the id and
\* remove it; anything else is dropped.
handle_response_message(response) ==
    IF \E id \in response.id : Position(id) # {}
    THEN \E id \in response.id : \E pos \in Position(id) :
            /\ response_rx' = SendTo(response_rx, pending_requests[pos][2], OkSome(response))
            /\ pending_requests' = RemoveAt(pending_requests, pos)
    ELSE UNCHANGED <<pending_requests, response_rx>>

\* A faulty end of the background task: the receiver of the outgoing channel
\* outlives the loop, so what is queued on it is never dropped.
LoopExit_keeps_queue ==
    /\ loop' = "stopped"
    /\ read_disabled' = FALSE
    /\ request_q' = request_q
    /\ outgoing' = <<>>
    /\ shutdown_q' = 0
    /\ read_stream' = <<>>

\* The background task ends: everything it owns is dropped (the receivers of
\* the outgoing and shutdown channels with what they still hold, the message
\* in hand, the read stream).
LoopExit ==
    /\ loop' = "stopped"
    /\ read_disabled' = FALSE
    /\ request_q' = <<>>
    /\ outgoing' = <<>>
    /\ shutdown_q' = 0
    /\ read_stream' = <<>>

\* ------------------------------------------------------ the background loop

\* select!: Some(()) = shutdown_rx.recv()
LoopShutdown ==
    /\ loop = "select"
    /\ shutdown_q > 0
    /\ response_rx' = SendAll(response_rx, pending_requests, Err("Session shutdown"))
    /\ pending_requests' = <<>>
    /\ LoopExit
    /\ UNCHANGED <<is_closed, id_counter, task_handle, task_lock, history_vars,
                   read_open, write_stream, pc, op, req_id, result>>
    /\ UNCHANGED not_session

\* A faulty outgoing branch: the loop takes the newest message of the outgoing
\* channel instead of the oldest.
LoopOutgoing_newest_first ==
    /\ loop = "select"
    /\ request_q # <<>>
    /\ request_q' = SubSeq(request_q, 1, Len(request_q) - 1)
    /\ IF is_closed
       THEN /\ response_rx' = SendTo(response_rx, request_q[Len(request_q)].response_tx,
                                     Err("Session is closed"))
            /\ read_disabled' = FALSE
            /\ UNCHANGED <<loop, outgoing>>
       ELSE /\ outgoing' = <<request_q[Len(request_q)]>>
            /\ loop' = "forward"
            /\ UNCHANGED <<response_rx, read_disabled>>
    /\ UNCHANGED <<is_closed, id_counter, shutdown_q, task_handle, task_lock,
                   history_vars, pending_requests, transport_vars,
                   pc, op, req_id, result>>
    /\ UNCHANGED not_session

\* select!: Some(outgoing) = request_rx.recv(), up to the is_closed check.
LoopOutgoing ==
    /\ loop = "select"
    /\ request_q # <<>>
    /\ request_q' = Tail(request_q)
    /\ IF is_closed
       THEN /\ response_rx' = SendTo(response_rx, Head(request_q).response_tx,
                                     Err("Session is closed"))
            /\ read_disabled' = FALSE
            /\ UNCHANGED <<loop, outgoing>>
       ELSE /\ outgoing' = <<Head(request_q)>>
            /\ loop' = "forward"
            /\ UNCHANGED <<response_rx, read_disabled>>
    /\ UNCHANGED <<is_closed, id_counter, shutdown_q, task_handle, task_lock,
                   history_vars, pending_requests, transport_vars,
                   pc, op, req_id, result>>
    /\ UNCHANGED not_session

\* A faulty outgoing branch: the else arm that acknowledges a notification is
\* missing.
LoopForward_no_ack(send_ok) ==
    /\ loop = "forward"
    /\ IF ~send_ok
       THEN /\ handle_write_error("TransportClosed")
            /\ LoopExit
            /\ UNCHANGED write_stream
       ELSE /\ write_stream' = Append(write_stream, outgoing[1].message)
            /\ pending_requests' =
                  IF outgoing[1].message.type = "Request" /\ outgoing[1].message.id # {}
                  THEN Append(pending_requests,
                              <<CHOOSE id \in outgoing[1].message.id : TRUE,
                                outgoing[1].response_tx>>)
                  ELSE pending_requests
            /\ UNCHANGED response_rx
            /\ outgoing' = <<>>
            /\ loop' = "select"
            /\ read_disabled' = FALSE
            /\ UNCHANGED <<is_closed, request_q, shutdown_q, read_stream>>
    /\ UNCHANGED <<id_counter, task_handle, task_lock, history_vars, read_open,
                   pc, op, req_id, result>>
    /\ UNCHANGED not_session

\* write_stream.send(Ok(outgoing.message.clone())) and what follows it. The
\* send fails when the transport has dropped the receiver of the write stream
\* (send_ok = FALSE), which it may have done at any time.
LoopForward(send_ok) ==
    /\ loop = "forward"
    /\ IF ~send_ok
       THEN /\ handle_write_error("TransportClosed")
            /\ LoopExit
            /\ UNCHANGED write_stream
       ELSE /\ write_stream' = Append(write_stream, outgoing[1].message)
            /\ IF outgoing[1].message.type = "Request"
               THEN /\ pending_requests' =
                         IF outgoing[1].message.id = {} THEN pending_requests
                         ELSE Append(pending_requests,
                                     <<CHOOSE id \in outgoing[1].message.id : TRUE,
                                       outgoing[1].response_tx>>)
                    /\ UNCHANGED response_rx
               ELSE /\ response_rx' = SendTo(response_rx, outgoing[1].response_tx, OkNone)
                    /\ UNCHANGED pending_requests
            /\ outgoing' = <<>>
            /\ loop' = "select"
            /\ read_disabled' = FALSE
            /\ UNCHANGED <<is_closed, request_q, shutdown_q, read_stream>>
    /\ UNCHANGED <<id_counter, task_handle, task_lock, history_vars, read_open,
                   pc, op, req_id, result>>
    /\ UNCHANGED not_session

\* select!: Some(message_result) = read_stream.recv()
LoopIncoming ==
    /\ loop = "select"
    /\ read_stream # <<>>
    /\ LET message_result == Head(read_stream) IN
       CASE message_result.type = "Response" ->
                /\ handle_response_message(message_result)
                /\ read_stream' = Tail(read_stream)
                /\ UNCHANGED <<is_closed, loop, read_disabled, request_q, outgoing, shutdown_q>>
         [] message_result.type = "Err" ->
                \E fatal \in BOOLEAN :
                    /\ handle_read_error(message_result.payload, fatal)
                    /\ IF fatal
                       THEN LoopExit
                       ELSE /\ read_stream' = Tail(read_stream)
                            /\ UNCHANGED <<loop, read_disabled, request_q, outgoing, shutdown_q>>
         [] OTHER ->
                /\ read_stream' = Tail(read_stream)
                /\ UNCHANGED <<is_closed, loop, read_disabled, request_q, outgoing,
                               shutdown_q, pending_requests, response_rx>>
    /\ UNCHANGED <<id_counter, task_handle, task_lock, history_vars, read_open,
                   write_stream, pc, op, req_id, result>>
    /\ UNCHANGED not_session

\* select!: read_stream.recv() yields None (every sender is gone and nothing is
\* buffered): the pattern Some(..) does not match, the branch is disabled for
\* this select! and the loop goes on waiting for the other two.
LoopIncomingNone ==
    /\ loop = "select"
    /\ read_stream = <<>>
    /\ ~read_open
    /\ ~read_disabled
    /\ read_disabled' = TRUE
    /\ UNCHANGED <<session_vars, loop, outgoing, pending_requests, transport_vars,
                   caller_vars>>
    /\ UNCHANGED not_session

\* ------------------------------------------------------------- the callers

\* A faulty rpc_call: the match looks at the result before the error.
RpcCallResult_result_first(outcome) ==
    IF ~outcome.ok THEN outcome.error
    ELSE IF outcome.response = {} THEN "Expected response for request"
    ELSE LET response == CHOOSE r \in outcome.response : TRUE IN
         CASE response.payload \in {"result", "both"} -> "Ok"
           [] response.payload = "bad_result" -> "Failed to deserialize result"
           [] response.payload = "error" -> "RPC Error"
           [] OTHER -> "No result in response"

\* rpc_call, the part after send_message returned: `outcome` is what the
\* caller's response channel yielded.
RpcCallResult(outcome) ==
    IF ~outcome.ok THEN outcome.error
    ELSE IF outcome.response = {} THEN "Expected response for request"
    ELSE LET response == CHOOSE r \in outcome.response : TRUE IN
         CASE response.payload \in {"error", "both"} -> "RPC Error"
           [] response.payload = "result" -> "Ok"
           [] response.payload = "bad_result" -> "Failed to deserialize result"
           [] OTHER -> "No result in response"

\* send_notification, the part after send_message returned.
SendNotificationResult(outcome) ==
    IF ~outcome.ok THEN outcome.error ELSE "Ok"

\* initialize takes &mut self: while it runs no other method of the Session
\* can be invoked, and it can be invoked only when no other method is running.
InitializeRunning ==
    \E c \in Callers :
        /\ op[c] \in {"initialize", "initialize_notification"}
        /\ pc[c] \notin {"idle", "done", "dropped"}

\* A faulty rpc_call: no is_closed check before the id is taken.
RpcCall_unchecked(c) ==
    /\ pc[c] = "idle"
    /\ ~InitializeRunning
    /\ op' = [op EXCEPT ![c] = "rpc_call"]
    /\ pc' = [pc EXCEPT ![c] = "alloc"]
    /\ UNCHANGED <<session_vars, loop_vars, transport_vars, req_id, result, response_rx>>
    /\ UNCHANGED not_session

\* rpc_call: the is_closed check at its head.
RpcCall(c) ==
    /\ pc[c] = "idle"
    /\ ~InitializeRunning
    /\ op' = [op EXCEPT ![c] = "rpc_call"]
    /\ IF is_closed
       THEN Return(c, "Session is closed")
       ELSE /\ pc' = [pc EXCEPT ![c] = "alloc"]
            /\ UNCHANGED <<result, response_rx>>
    /\ UNCHANGED <<session_vars, loop_vars, transport_vars, req_id>>
    /\ UNCHANGED not_session

\* A faulty rpc_call: id_counter.load() where fetch_add(1) should be.
AllocId_load(c) ==
    /\ pc[c] = "alloc"
    /\ req_id' = [req_id EXCEPT ![c] = {id_counter}]
    /\ pc' = [pc EXCEPT ![c] = "send_message"]
    /\ UNCHANGED <<session_vars, loop_vars, transport_vars, op, response_rx, result>>
    /\ UNCHANGED not_session

\* rpc_call: id_counter.fetch_add(1) and the construction of the request.
AllocId(c) ==
    /\ pc[c] = "alloc"
    /\ req_id' = [req_id EXCEPT ![c] = {id_counter}]
    /\ id_counter' = id_counter + 1
    /\ pc' = [pc EXCEPT ![c] = "send_message"]
    /\ UNCHANGED <<is_closed, request_q, shutdown_q, task_handle, task_lock,
                   history_vars, loop_vars, transport_vars, op, response_rx, result>>
    /\ UNCHANGED not_session

\* A faulty send_notification: it takes an id from the counter as rpc_call does.
SendNotification_takes_id(c) ==
    /\ pc[c] = "idle"
    /\ ~InitializeRunning
    /\ op' = [op EXCEPT ![c] = "send_notification"]
    /\ IF is_closed
       THEN /\ Return(c, "Session is closed")
            /\ UNCHANGED id_counter
       ELSE /\ pc' = [pc EXCEPT ![c] = "send_message"]
            /\ id_counter' = id_counter + 1
            /\ UNCHANGED <<result, response_rx>>
    /\ UNCHANGED <<is_closed, request_q, shutdown_q, task_handle, task_lock, history_vars,
                   loop_vars, transport_vars, req_id>>
    /\ UNCHANGED not_session

\* send_notification: the is_closed check at its head.
SendNotification(c) ==
    /\ pc[c] = "idle"
    /\ ~InitializeRunning
    /\ op' = [op EXCEPT ![c] = "send_notification"]
    /\ IF is_closed
       THEN Return(c, "Session is closed")
       ELSE /\ pc' = [pc EXCEPT ![c] = "send_message"]
            /\ UNCHANGED <<result, response_rx>>
    /\ UNCHANGED <<session_vars, loop_vars, transport_vars, req_id>>
    /\ UNCHANGED not_session

\* send_message: the is_closed check at its head.
SendMessageCheck(c) ==
    /\ pc[c] = "send_message"
    /\ IF is_closed
       THEN Return(c, "Session is closed")
       ELSE /\ pc' = [pc EXCEPT ![c] = "enqueue"]
            /\ UNCHANGED <<result, response_rx>>
    /\ UNCHANGED <<session_vars, loop_vars, transport_vars, op, req_id>>
    /\ UNCHANGED not_session

\* The message the caller hands to send_message: rpc_call and the first half
\* of initialize build a Request with the id obtained, send_notification and
\* the second half of initialize a Notification.
MessageOf(c) ==
    IF op[c] \in {"rpc_call", "initialize"}
    THEN Request(CHOOSE id \in req_id[c] : TRUE)
    ELSE Notification

\* send_message: request_tx.send(OutgoingMessage {..}); it fails when the loop
\* has dropped the receiver and waits while the channel is full.
SendMessageEnqueue(c) ==
    /\ pc[c] = "enqueue"
    /\ IF loop = "stopped"
       THEN /\ Return(c, "Failed to send message")
            /\ UNCHANGED <<request_q, accepted>>
       ELSE /\ Len(request_q) < RequestChannelCapacity
            /\ request_q' = Append(request_q, OutgoingMessage(MessageOf(c), c))
            /\ accepted' = Append(accepted, MessageOf(c))
            /\ pc' = [pc EXCEPT ![c] = "wait"]
            /\ UNCHANGED <<result, response_rx>>
    /\ UNCHANGED <<is_closed, id_counter, shutdown_q, task_handle, task_lock,
                   parked_at_shutdown, called_on_stopped,
                   loop_vars, transport_vars, op, req_id>>
    /\ UNCHANGED not_session

\* send_message: response_rx.recv() and the caller's return. recv yields the
\* outcome sent, or None once every sender is dropped with nothing sent.
SendMessageReceive(c) ==
    /\ pc[c] = "wait"
    /\ \/ response_rx[c] # <<>>
       \/ ~TxAlive(c)
    /\ LET outcome == IF response_rx[c] # <<>> THEN Head(response_rx[c])
                      ELSE Err("Failed to receive response")
           r == IF op[c] \in {"rpc_call", "initialize"} THEN RpcCallResult(outcome)
                ELSE SendNotificationResult(outcome)
       IN  IF op[c] = "initialize" /\ r = "Ok"
           THEN /\ pc' = [pc EXCEPT ![c] = "initialized"]
                /\ response_rx' = [response_rx EXCEPT ![c] = <<>>]
                /\ UNCHANGED result
           ELSE Return(c, r)
    /\ UNCHANGED <<session_vars, loop_vars, transport_vars, op, req_id>>
    /\ UNCHANGED not_session

\* initialize: rpc_call("initialize", ..), with rpc_call's is_closed check.
Initialize(c) ==
    /\ pc[c] = "idle"
    /\ \A d \in Callers \ {c} : pc[d] \in {"idle", "done", "dropped"}
    /\ op' = [op EXCEPT ![c] = "initialize"]
    /\ IF is_closed
       THEN Return(c, "Session is closed")
       ELSE /\ pc' = [pc EXCEPT ![c] = "alloc"]
            /\ UNCHANGED <<result, response_rx>>
    /\ UNCHANGED <<session_vars, loop_vars, transport_vars, req_id>>
    /\ UNCHANGED not_session

\* A faulty initialize: the notification is sent without the `?` on the
\* rpc_call, whatever the call returned.
InitializeNotify_unconditional(c) ==
    /\ \/ pc[c] = "initialized"
       \/ pc[c] = "done" /\ op[c] = "initialize"
    /\ op' = [op EXCEPT ![c] = "initialize_notification"]
    /\ pc' = [pc EXCEPT ![c] = "send_message"]
    /\ UNCHANGED <<session_vars, loop_vars, transport_vars, req_id, result, response_rx>>
    /\ UNCHANGED not_session

\* initialize: the rpc_call returned Ok; send_notification("notifications/
\* initialized", None), with send_notification's is_closed check.
InitializeNotify(c) ==
    /\ pc[c] = "initialized"
    /\ op' = [op EXCEPT ![c] = "initialize_notification"]
    /\ IF is_closed
       THEN Return(c, "Session is closed")
       ELSE /\ pc' = [pc EXCEPT ![c] = "send_message"]
            /\ UNCHANGED <<result, response_rx>>
    /\ UNCHANGED <<session_vars, loop_vars, transport_vars, req_id>>
    /\ UNCHANGED not_session

\* shutdown: is_closed.store(true). (parked_at_shutdown and called_on_stopped
\* are history variables; the code keeps no such record.)
Shutdown(c) ==
    /\ pc[c] = "idle"
    /\ ~InitializeRunning
    /\ op' = [op EXCEPT ![c] = "shutdown"]
    /\ is_closed' = TRUE
    /\ pc' = [pc EXCEPT ![c] = "shutdown_send"]
    /\ parked_at_shutdown' =
           IF is_closed THEN parked_at_shutdown
           ELSE {pending_requests[i][2] : i \in 1..Len(pending_requests)}
    /\ called_on_stopped' =
           IF loop = "stopped" THEN called_on_stopped \cup {c} ELSE called_on_stopped
    /\ UNCHANGED accepted
    /\ UNCHANGED <<id_counter, request_q, shutdown_q, task_handle, task_lock,
                   loop_vars, transport_vars, req_id, response_rx, result>>
    /\ UNCHANGED not_session

\* shutdown: shutdown_tx.send(()); it fails when the loop has dropped the
\* receiver and waits while the channel is full.
ShutdownSend(c) ==
    /\ pc[c] = "shutdown_send"
    /\ IF loop = "stopped"
       THEN /\ Return(c, "Failed to shutdown session")
            /\ UNCHANGED shutdown_q
       ELSE /\ shutdown_q < ShutdownChannelCapacity
            /\ shutdown_q' = shutdown_q + 1
            /\ pc' = [pc EXCEPT ![c] = "shutdown_lock"]
            /\ UNCHANGED <<result, response_rx>>
    /\ UNCHANGED <<is_closed, id_counter, request_q, task_handle, task_lock,
                   history_vars, loop_vars, transport_vars, op, req_id>>
    /\ UNCHANGED not_session

\* shutdown: background_task.lock().await.take(); the guard lives until the
\* end of the if-let.
ShutdownLock(c) ==
    /\ pc[c] = "shutdown_lock"
    /\ task_lock = 0
    /\ IF task_handle
       THEN /\ task_handle' = FALSE
            /\ task_lock' = c
            /\ pc' = [pc EXCEPT ![c] = "shutdown_join"]
            /\ UNCHANGED <<result, response_rx>>
       ELSE /\ Return(c, "Ok")
            /\ UNCHANGED <<task_handle, task_lock>>
    /\ UNCHANGED <<is_closed, id_counter, request_q, shutdown_q, history_vars,
                   loop_vars, transport_vars, op, req_id>>
    /\ UNCHANGED not_session

\* A faulty shutdown: the task handle is taken and dropped without task.await.
ShutdownJoin_no_wait(c) ==
    /\ pc[c] = "shutdown_join"
    /\ task_lock' = 0
    /\ Return(c, "Ok")
    /\ UNCHANGED <<is_closed, id_counter, request_q, shutdown_q, task_handle,
                   history_vars, loop_vars, transport_vars, op, req_id>>
    /\ UNCHANGED not_session

\* shutdown: task.await, then Ok(()).
ShutdownJoin(c) ==
    /\ pc[c] = "shutdown_join"
    /\ loop = "stopped"
    /\ task_lock' = 0
    /\ Return(c, "Ok")
    /\ UNCHANGED <<is_closed, id_counter, request_q, shutdown_q, task_handle,
                   history_vars,
                   loop_vars, transport_vars, op, req_id>>
    /\ UNCHANGED not_session

\* The caller gives up: the future of its call is dropped while it awaits
\* response_rx.recv(), and response_rx is dropped with it.
Abandon(c) ==
    /\ pc[c] = "wait"
    /\ pc' = [pc EXCEPT ![c] = "dropped"]
    /\ response_rx' = [response_rx EXCEPT ![c] = <<>>]
    /\ UNCHANGED <<session_vars, loop_vars, transport_vars, op, req_id, result>>
    /\ UNCHANGED not_session

\* ----------------------------------------------------------- the transport

\* The transport's reader puts an item on the read stream (tx_read.send). It
\* hands over the next item once the loop has taken the previous one: the loop
\* takes the items one at a time and in order, so a deeper buffer adds no
\* behaviour of the session.
TransportRead(item) ==
    /\ loop # "stopped"
    /\ read_open
    /\ read_stream = <<>>
    /\ read_stream' = Append(read_stream, item)
    /\ UNCHANGED <<session_vars, loop_vars, read_open, write_stream,
                   caller_vars>>
    /\ UNCHANGED not_session

\* Every sender of the read stream is dropped: end of stream.
TransportReadEnd ==
    /\ loop # "stopped"
    /\ read_open
    /\ read_open' = FALSE
    /\ UNCHANGED <<session_vars, loop_vars, read_stream, write_stream,
                   caller_vars>>
    /\ UNCHANGED not_session

\* ------------------------------------------------------- the specification

Loop ==
    \/ LoopShutdown
    \/ LoopOutgoing
    \/ \E send_ok \in BOOLEAN : LoopForward(send_ok)
    \/ LoopIncoming
    \/ LoopIncomingNone

Caller(c) ==
    \/ RpcCall(c) \/ AllocId(c) \/ SendNotification(c)
    \/ SendMessageCheck(c) \/ SendMessageEnqueue(c) \/ SendMessageReceive(c)
    \/ Shutdown(c) \/ ShutdownSend(c) \/ ShutdownLock(c) \/ ShutdownJoin(c)

Transport ==
    \/ \E item \in InboundItems : TransportRead(item)
    \/ TransportReadEnd

Next ==
    \/ Loop
    \/ \E c \in Callers : Caller(c)
    \/ Transport

Spec == Init /\ [][Next]_vars

\* The session with a peer that also sends the odd Responses.
NextOddPeer ==
    \/ Loop
    \/ \E c \in Callers : Caller(c)
    \/ Transport
    \/ \E item \in OddInboundItems : TransportRead(item)

OddPeerSpec == Init /\ [][NextOddPeer]_vars

\* The session with callers that may give up a call they are waiting in.
NextAbandon ==
    \/ Loop
    \/ \E c \in Callers : Caller(c)
    \/ \E c \in Callers : Abandon(c)
    \/ Transport

AbandonSpec == Init /\ [][NextAbandon]_vars

\* The session with initialize among the operations its callers invoke.
NextInitialize ==
    \/ Loop
    \/ \E c \in Callers : Caller(c)
    \/ \E c \in Callers : Initialize(c) \/ InitializeNotify(c)
    \/ Transport

InitializeSpec == Init /\ [][NextInitialize]_vars

\* The steps of a caller that has invoked its operation (a spawned task is
\* scheduled until it returns; nobody is obliged to invoke anything).
CallerContinue(c) ==
    \/ AllocId(c) \/ SendMessageCheck(c) \/ SendMessageEnqueue(c)
    \/ SendMessageReceive(c)
    \/ ShutdownSend(c) \/ ShutdownLock(c) \/ ShutdownJoin(c)

\* Fair scheduling: the runtime keeps running the background task and the
\* callers' tasks, and select! picks at random among the ready branches, so a
\* branch that stays ready is taken. The transport (the peer) owes nothing.
FairSpec ==
    /\ Spec
    /\ WF_vars(LoopShutdown)
    /\ WF_vars(LoopOutgoing)
    /\ WF_vars(\E send_ok \in BOOLEAN : LoopForward(send_ok))
    /\ WF_vars(LoopIncoming)
    /\ \A c \in Callers : WF_vars(CallerContinue(c))

\* drop(session): the Session value goes away with its request_tx and
\* shutdown_tx; no method of it is running (each borrows the Session) and none
\* can be invoked any more. The background task is detached, not aborted.
SessionDrop ==
    /\ ~handle_dropped
    /\ \A c \in Callers : pc[c] \in {"idle", "done"}
    /\ handle_dropped' = TRUE
    /\ UNCHANGED <<session_side, service_vars, server_vars, stdio_vars, connect_vars,
                   sse_vars>>

\* select! with every branch disabled and no else branch: shutdown_rx.recv()
\* and request_rx.recv() yield None once the senders are dropped and nothing
\* is buffered, read_stream.recv() yields None at the end of the stream; the
\* macro panics and the task ends with the panic.
LoopPanic ==
    /\ loop = "select"
    /\ handle_dropped
    /\ shutdown_q = 0
    /\ request_q = <<>>
    /\ read_stream = <<>>
    /\ ~read_open
    /\ loop' = "panicked"
    /\ UNCHANGED <<session_vars, read_disabled, outgoing, pending_requests,
                   transport_vars, caller_vars>>
    /\ UNCHANGED not_session

\* The session whose owner may drop it.
NextDrop ==
    \/ Loop
    \/ \E c \in Callers : ~handle_dropped /\ Caller(c)
    \/ Transport
    \/ SessionDrop
    \/ LoopPanic

DropSpec == Init /\ [][NextDrop]_vars

\* The runtime keeps running the background task.
DropFairSpec ==
    /\ DropSpec
    /\ WF_vars(LoopShutdown)
    /\ WF_vars(LoopOutgoing)
    /\ WF_vars(\E send_ok \in BOOLEAN : LoopForward(send_ok))
    /\ WF_vars(LoopIncoming)
    /\ WF_vars(LoopPanic)

\* ------------------------------------------------- the TransportService

\* poll_ready: Poll::Ready(Ok(())), whatever the state.
poll_ready == "Ready(Ok(()))"

\* ensure_initialized returns r to the call; with Ok it hands over a clone of
\* the router it found.
ServiceReturn(c, r, found) ==
    /\ service_pc' = [service_pc EXCEPT ![c] = "done"]
    /\ service_result' = [service_result EXCEPT ![c] = r]
    /\ service_router' = [service_router EXCEPT ![c] = found]

\* call: the future starts with inner.ensure_initialized().
ServiceCall(c) ==
    /\ service_pc[c] = "idle"
    /\ service_pc' = [service_pc EXCEPT ![c] = "check"]
    /\ UNCHANGED <<initialized, router, router_guard, start_calls, routers_created,
                   service_router, service_result, not_service>>

\* ensure_initialized: the first initialized.load().
EnsureCheck(c) ==
    /\ service_pc[c] = "check"
    /\ service_pc' = [service_pc EXCEPT ![c] = IF initialized THEN "get" ELSE "lock"]
    /\ UNCHANGED <<initialized, router, router_guard, start_calls, routers_created,
                   service_router, service_result, not_service>>

\* ensure_initialized: router.lock().await inside the if.
EnsureLock(c) ==
    /\ service_pc[c] = "lock"
    /\ router_guard = 0
    /\ router_guard' = c
    /\ service_pc' = [service_pc EXCEPT ![c] = "recheck"]
    /\ UNCHANGED <<initialized, router, start_calls, routers_created,
                   service_router, service_result, not_service>>

\* A faulty ensure_initialized: no second load under the lock, the holder of
\* the lock always starts the transport.
EnsureRecheck_no_double_check(c) ==
    /\ service_pc[c] = "recheck"
    /\ start_calls' = start_calls + 1
    /\ service_pc' = [service_pc EXCEPT ![c] = "starting"]
    /\ UNCHANGED <<initialized, router, router_guard, routers_created,
                   service_router, service_result, not_service>>

\* ensure_initialized: the second initialized.load(), under the lock; when it
\* is still false, transport.start() is called. When it is true the guard is
\* dropped at the end of the if.
EnsureRecheck(c) ==
    /\ service_pc[c] = "recheck"
    /\ IF initialized
       THEN /\ router_guard' = 0
            /\ service_pc' = [service_pc EXCEPT ![c] = "get"]
            /\ UNCHANGED start_calls
       ELSE /\ start_calls' = start_calls + 1
            /\ service_pc' = [service_pc EXCEPT ![c] = "starting"]
            /\ UNCHANGED router_guard
    /\ UNCHANGED <<initialized, router, routers_created,
                   service_router, service_result, not_service>>

\* ensure_initialized: transport.start().await completes; on Err the `?`
\* returns it and the guard is dropped.
EnsureStarted(c, ok) ==
    /\ service_pc[c] = "starting"
    /\ IF ok
       THEN /\ service_pc' = [service_pc EXCEPT ![c] = "create"]
            /\ UNCHANGED <<router_guard, service_result, service_router>>
       ELSE /\ router_guard' = 0
            /\ ServiceReturn(c, "Transport error", 0)
    /\ UNCHANGED <<initialized, router, start_calls, routers_created, not_service>>

\* ensure_initialized: MessageRouter::new(..) and *router_guard = Some(router).
EnsureCreate(c) ==
    /\ service_pc[c] = "create"
    /\ routers_created' = routers_created + 1
    /\ router' = routers_created + 1
    /\ service_pc' = [service_pc EXCEPT ![c] = "store"]
    /\ UNCHANGED <<initialized, router_guard, start_calls,
                   service_router, service_result, not_service>>

\* ensure_initialized: initialized.store(true); the guard is dropped at the end
\* of the if.
EnsureStore(c) ==
    /\ service_pc[c] = "store"
    /\ initialized' = TRUE
    /\ router_guard' = 0
    /\ service_pc' = [service_pc EXCEPT ![c] = "get"]
    /\ UNCHANGED <<router, start_calls, routers_created,
                   service_router, service_result, not_service>>

\* ensure_initialized: router.lock().await.as_ref().ok_or(NotInitialized)?.clone();
\* the temporary guard is dropped at the end of the statement.
EnsureGet(c) ==
    /\ service_pc[c] = "get"
    /\ router_guard = 0
    /\ IF router = 0
       THEN ServiceReturn(c, "Transport not initialized", 0)
       ELSE ServiceReturn(c, "Ok", router)
    /\ UNCHANGED <<initialized, router, router_guard, start_calls, routers_created,
                   not_service>>

\* The future returned by call is dropped (by a timeout around it, say) at one
\* of the awaits of ensure_initialized: waiting for the lock, in
\* transport.start().await with the guard held, or waiting for the lock of the
\* final read. A guard it holds is dropped with it.
ServiceAbandon(c) ==
    /\ service_pc[c] \in {"lock", "starting", "get"}
    /\ service_pc' = [service_pc EXCEPT
                        ![c] = IF service_pc[c] = "starting" THEN "dropped_in_start"
                                                             ELSE "dropped"]
    /\ router_guard' = IF router_guard = c THEN 0 ELSE router_guard
    /\ UNCHANGED <<initialized, router, start_calls, routers_created,
                   service_router, service_result, not_service>>

ServiceNext ==
    \E c \in ServiceCalls :
        \/ ServiceCall(c)
        \/ EnsureCheck(c)
        \/ EnsureLock(c)
        \/ EnsureRecheck(c)
        \/ \E ok \in BOOLEAN : EnsureStarted(c, ok)
        \/ EnsureCreate(c)
        \/ EnsureStore(c)
        \/ EnsureGet(c)
        \/ ServiceAbandon(c)

ServiceSpec == Init /\ [][ServiceNext]_vars

\* ------------------------------------------------------ the server Router

\* The tools a test registers: a handler is known by the name it reports and
\* by which implementation it is (two handlers may report the same name).
ToolNames == {"test", "other"}
ToolHandlers == {[name |-> "test", impl |-> 1], [name |-> "test", impl |-> 2],
                 [name |-> "other", impl |-> 1]}

\* The requests a peer sends: with or without id, any method of the dispatch
\* table or not, without params, with params that lack "name", and with the
\* name of a tool that may or may not be registered.
RequestedNames == ToolNames \cup {"ghost"}
Methods == {"slow", "initialize", "tools/list", "tools/call",
            "resources/list", "resources/read", "ping"}
Requests ==
    [id : {{}, {1}},
     method : Methods,
     params : [present : {FALSE}, name : {{}}]
              \cup [present : {TRUE}, name : {{}} \cup {{n} : n \in RequestedNames}]]

\* HashMap::insert under the name the handler reports: a handler already
\* stored under that name is replaced.
Insert(map, tool) == {t \in map : t.name # tool.name} \cup {tool}

RECURSIVE InsertAll(_, _)
InsertAll(map, ts) ==
    IF ts = <<>> THEN map ELSE InsertAll(Insert(map, Head(ts)), Tail(ts))

\* HashMap::get
Get(map, name) == {t \in map : t.name = name}

\* RouterBuilder::with_tool
with_tool(tool) ==
    /\ ~built
    /\ Len(registered) < MaxRegistrations
    /\ builder_tools' = Insert(builder_tools, tool)
    /\ registered' = Append(registered, tool)
    /\ UNCHANGED <<builder_prompts, builder_resources, built, capabilities, tools,
                   request, reply, called, not_server>>

\* RouterBuilder::with_tools, here with an iterator of two handlers.
with_tools(ts) ==
    /\ ~built
    /\ Len(registered) + Len(ts) <= MaxRegistrations
    /\ builder_tools' = InsertAll(builder_tools, ts)
    /\ registered' = registered \o ts
    /\ UNCHANGED <<builder_prompts, builder_resources, built, capabilities, tools,
                   request, reply, called, not_server>>

\* RouterBuilder::with_prompts
with_prompts(list_changed) ==
    /\ ~built
    /\ builder_prompts' = {list_changed}
    /\ UNCHANGED <<builder_tools, builder_resources, registered, built, capabilities,
                   tools, request, reply, called, not_server>>

\* RouterBuilder::with_resources
with_resources(subscribe, list_changed) ==
    /\ ~built
    /\ builder_resources' = {<<subscribe, list_changed>>}
    /\ UNCHANGED <<builder_tools, builder_prompts, registered, built, capabilities,
                   tools, request, reply, called, not_server>>

\* A faulty build: the tools capability is hard-coded.
build_hard_coded ==
    /\ ~built
    /\ built' = TRUE
    /\ capabilities' = [tools |-> {FALSE},
                        prompts |-> builder_prompts,
                        resources |-> builder_resources]
    /\ tools' = builder_tools
    /\ UNCHANGED <<builder_tools, builder_prompts, builder_resources, registered,
                   request, reply, called, not_server>>

\* RouterBuilder::build: the tools capability (list_changed: Some(false)) is
\* there when the builder holds a tool.
build ==
    /\ ~built
    /\ built' = TRUE
    /\ capabilities' = [tools |-> IF builder_tools # {} THEN {FALSE} ELSE {},
                        prompts |-> builder_prompts,
                        resources |-> builder_resources]
    /\ tools' = builder_tools
    /\ UNCHANGED <<builder_tools, builder_prompts, builder_resources, registered,
                   request, reply, called, not_server>>

\* A faulty create_response: the id is left out.
create_response_no_id(id) == [id |-> {}, result |-> {}, error |-> {}]

\* Router::create_response
create_response(id) == [id |-> id, result |-> {}, error |-> {}]

\* The variants of RouterError. handle_tools_call names the variant for a tool
\* that is not registered ToolNotFound; the enum has it as UnknownTool.
RouterErrors == {"MethodNotFound", "UnknownTool", "InvalidParams", "Internal"}

\* impl From<RouterError> for ErrorData: the code of each variant.
ErrorCode(err) ==
    CASE err = "MethodNotFound" -> "METHOD_NOT_FOUND"
      [] err = "UnknownTool" -> "INVALID_REQUEST"
      [] err = "InvalidParams" -> "INVALID_PARAMS"
      [] err = "Internal" -> "INTERNAL_ERROR"

ErrorData(err) == [code |-> ErrorCode(err), message |-> err]

\* Router::handle_initialize
handle_initialize(req) ==
    OkSome([create_response(req.id) EXCEPT
              !.result = {[kind |-> "InitializeResult", capabilities |-> capabilities]}])

\* A faulty handle_tools_list: the tool named "test" is left out of the list.
handle_tools_list_hides_one(req) ==
    OkSome([create_response(req.id) EXCEPT
              !.result = {[kind |-> "ListToolsResult",
                           tools |-> {t.name : t \in tools} \ {"test"}]}])

\* Router::handle_tools_list: the name each stored handler reports.
handle_tools_list(req) ==
    OkSome([create_response(req.id) EXCEPT
              !.result = {[kind |-> "ListToolsResult",
                           tools |-> {t.name : t \in tools}]}])

\* The handler handle_tools_call invokes for req: none when the params or the
\* name are missing or no tool is stored under the name.
ToolCalled(req) ==
    IF req.params.present /\ req.params.name # {}
    THEN Get(tools, CHOOSE n \in req.params.name : TRUE)
    ELSE {}

\* A faulty handle_tools_call: the handler's error is returned with `?`.
handle_tools_call_propagates(req, handler_ok) ==
    IF ~req.params.present \/ req.params.name = {} THEN Err("InvalidParams")
    ELSE IF ToolCalled(req) = {} THEN Err("UnknownTool")
    ELSE IF ~handler_ok THEN Err("Internal")
    ELSE OkSome([create_response(req.id) EXCEPT
                   !.result = {[kind |-> "CallToolResult",
                                content |-> <<"result.to_string()">>,
                                is_error |-> FALSE]}])

\* Router::handle_tools_call; handler_ok is what tool.call(arguments) returns.
handle_tools_call(req, handler_ok) ==
    IF ~req.params.present \/ req.params.name = {} THEN Err("InvalidParams")
    ELSE IF ToolCalled(req) = {} THEN Err("UnknownTool")
    ELSE OkSome([create_response(req.id) EXCEPT
                   !.result = {[kind |-> "CallToolResult",
                                content |-> IF handler_ok THEN <<"result.to_string()">>
                                                          ELSE <<"err.to_string()">>,
                                is_error |-> ~handler_ok]}])

\* <Router as Service<JsonRpcRequest>>::call: the match on req.method.
Dispatch(req, handler_ok) ==
    CASE req.method = "slow" ->
             OkSome([create_response(req.id) EXCEPT
                       !.result = {[kind |-> "String"]}])
      [] req.method = "initialize" -> handle_initialize(req)
      [] req.method = "tools/list" -> handle_tools_list(req)
      [] req.method = "tools/call" -> handle_tools_call(req, handler_ok)
      [] OTHER ->
             OkSome([create_response(req.id) EXCEPT
                       !.error = {ErrorData("MethodNotFound")}])

\* <Router as Service<JsonRpcRequest>>::call
RouterCall(req, handler_ok) ==
    /\ built
    /\ request' = req
    /\ reply' = Dispatch(req, handler_ok)
    /\ called' = IF req.method = "tools/call"
                 THEN {[tool |-> t, ok |-> handler_ok] : t \in ToolCalled(req)}
                 ELSE {}
    /\ UNCHANGED <<builder_tools, builder_prompts, builder_resources, registered, built,
                   capabilities, tools, not_server>>

ServerNext ==
    \/ \E tool \in ToolHandlers : with_tool(tool)
    \/ \E t1, t2 \in ToolHandlers : with_tools(<<t1, t2>>)
    \/ \E list_changed \in BOOLEAN : with_prompts(list_changed)
    \/ \E subscribe, list_changed \in BOOLEAN : with_resources(subscribe, list_changed)
    \/ build
    \/ \E req \in Requests :
          \E handler_ok \in IF ToolCalled(req) = {} THEN {TRUE} ELSE BOOLEAN :
              RouterCall(req, handler_ok)

ServerSpec == Init /\ [][ServerNext]_vars

\* ------------------------------------------- the StdioTransport (stdio.rs)

\* The messages handed to send.
Frames == {"frame"}

\* A start is between its check of child and its store of child.
Starting(u) == user_op[u] = "start" /\ user_pc[u] \notin {"idle", "done"}

\* The operation of u returns r.
UserReturn(u, r) ==
    /\ user_pc' = [user_pc EXCEPT ![u] = "done"]
    /\ user_result' = [user_result EXCEPT ![u] = r]

\* A task calls start, send, receive or close.
Invoke(u, o, msg) ==
    /\ user_pc[u] \in {"idle", "done"}
    /\ invoked < MaxOps
    /\ invoked' = invoked + 1
    /\ user_pc' = [user_pc EXCEPT ![u] = o]
    /\ user_op' = [user_op EXCEPT ![u] = o]
    /\ user_msg' = [user_msg EXCEPT ![u] = IF o = "send" THEN msg ELSE ""]
    /\ user_child' = [user_child EXCEPT ![u] = 0]
    /\ user_result' = [user_result EXCEPT ![u] = "none"]
    /\ user_line' = [user_line EXCEPT ![u] = <<>>]
    /\ from_closed' = [from_closed EXCEPT ![u] = "no"]
    /\ UNCHANGED <<handle_vars, lock_vars, process_vars, lifecycle, not_stdio>>

\* start: if self.child.lock().await.is_some() { return Ok(()) }
StartCheck(u) ==
    /\ user_pc[u] = "start"
    /\ child_lock = 0
    /\ IF child # 0
       THEN /\ UserReturn(u, "Ok")
            /\ lifecycle' = "started"
       ELSE /\ user_pc' = [user_pc EXCEPT ![u] = "spawn"]
            /\ UNCHANGED <<user_result, lifecycle>>
    /\ UNCHANGED <<handle_vars, lock_vars, process_vars, user_op, user_msg, user_child,
                   user_line, invoked, from_closed, not_stdio>>

\* start: cmd.spawn()? and the two take()s of the piped handles.
StartSpawn(u, ok) ==
    /\ user_pc[u] = "spawn"
    /\ IF ok
       THEN /\ spawned' = spawned + 1
            /\ proc' = [proc EXCEPT ![spawned + 1] = "running"]
            /\ user_child' = [user_child EXCEPT ![u] = spawned + 1]
            /\ user_pc' = [user_pc EXCEPT ![u] = "store_stdin"]
            /\ UNCHANGED user_result
       ELSE /\ UserReturn(u, "Io")
            /\ UNCHANGED <<spawned, proc, user_child>>
    /\ UNCHANGED <<handle_vars, lock_vars, stdin_pipe, stdout_pipe, user_op, user_msg,
                   user_line, invoked, lifecycle, from_closed, not_stdio>>

\* start: *self.stdin.lock().await = Some(stdin)
StartStoreStdin(u) ==
    /\ user_pc[u] = "store_stdin"
    /\ stdin_lock = 0
    /\ stdin' = user_child[u]
    /\ user_pc' = [user_pc EXCEPT ![u] = "store_stdout"]
    /\ UNCHANGED <<child, stdout, lock_vars, process_vars, user_op, user_msg, user_child,
                   user_result, user_line, invoked, lifecycle, from_closed, not_stdio>>

\* start: *self.stdout.lock().await = Some(BufReader::new(stdout))
StartStoreStdout(u) ==
    /\ user_pc[u] = "store_stdout"
    /\ stdout_lock = 0
    /\ stdout' = user_child[u]
    /\ user_pc' = [user_pc EXCEPT ![u] = "store_child"]
    /\ UNCHANGED <<child, stdin, lock_vars, process_vars, user_op, user_msg, user_child,
                   user_result, user_line, invoked, lifecycle, from_closed, not_stdio>>

\* start: *self.child.lock().await = Some(child); Ok(())
StartStoreChild(u) ==
    /\ user_pc[u] = "store_child"
    /\ child_lock = 0
    /\ child' = user_child[u]
    /\ UserReturn(u, "Ok")
    /\ lifecycle' = "started"
    /\ UNCHANGED <<stdin, stdout, lock_vars, process_vars, user_op, user_msg, user_child,
                   user_line, invoked, from_closed, not_stdio>>

\* send: self.stdin.lock().await and as_mut().ok_or(Error::NotConnected)?
SendLock(u) ==
    /\ user_pc[u] = "send"
    /\ stdin_lock = 0
    /\ IF stdin = 0
       THEN /\ UserReturn(u, "NotConnected")
            /\ UNCHANGED stdin_lock
       ELSE /\ stdin_lock' = u
            /\ user_pc' = [user_pc EXCEPT ![u] = "write"]
            /\ UNCHANGED user_result
    /\ UNCHANGED <<handle_vars, child_lock, stdout_lock, process_vars, user_op, user_msg,
                   user_child, user_line, invoked, lifecycle, from_closed, not_stdio>>

\* send: write_all(msg), write_all(b"\n"), flush: the line is in the pipe, or
\* the write fails because the process has exited.
SendWrite(u) ==
    /\ user_pc[u] = "write"
    /\ IF proc[stdin] = "running"
       THEN /\ stdin_pipe' = [stdin_pipe EXCEPT ![stdin] = Append(@, <<user_msg[u], "\n">>)]
            /\ UserReturn(u, "Ok")
       ELSE /\ UserReturn(u, "Io")
            /\ UNCHANGED stdin_pipe
    /\ stdin_lock' = 0
    /\ UNCHANGED <<handle_vars, child_lock, stdout_lock, spawned, proc, stdout_pipe,
                   user_op, user_msg, user_child, user_line, invoked, lifecycle,
                   from_closed, not_stdio>>

\* receive: self.stdout.lock().await and as_mut().ok_or(Error::NotConnected)?
ReceiveLock(u) ==
    /\ user_pc[u] = "receive"
    /\ stdout_lock = 0
    /\ IF stdout = 0
       THEN /\ UserReturn(u, "NotConnected")
            /\ UNCHANGED stdout_lock
       ELSE /\ stdout_lock' = u
            /\ user_pc' = [user_pc EXCEPT ![u] = "read_line"]
            /\ UNCHANGED user_result
    /\ UNCHANGED <<handle_vars, child_lock, stdin_lock, process_vars, user_op, user_msg,
                   user_child, user_line, invoked, lifecycle, from_closed, not_stdio>>

\* A faulty receive: at the end of the stream it returns the empty line.
ReceiveLine_empty_at_eof(u) ==
    /\ user_pc[u] = "read_line"
    /\ IF stdout_pipe[stdout] # <<>>
       THEN /\ user_line' = [user_line EXCEPT ![u] = Head(stdout_pipe[stdout])]
            /\ stdout_pipe' = [stdout_pipe EXCEPT ![stdout] = Tail(@)]
            /\ UserReturn(u, "Ok")
       ELSE /\ proc[stdout] = "exited"
            /\ UserReturn(u, "Ok")
            /\ UNCHANGED <<user_line, stdout_pipe>>
    /\ stdout_lock' = 0
    /\ UNCHANGED <<handle_vars, child_lock, stdin_lock, spawned, proc, stdin_pipe,
                   user_op, user_msg, user_child, invoked, lifecycle, from_closed,
                   not_stdio>>

\* receive: read_line waits for a line or for the end of the stream (the
\* process has exited and nothing is left to read); n == 0 is NotConnected.
\* The line is returned with its newline.
ReceiveLine(u) ==
    /\ user_pc[u] = "read_line"
    /\ IF stdout_pipe[stdout] # <<>>
       THEN /\ user_line' = [user_line EXCEPT ![u] = Head(stdout_pipe[stdout])]
            /\ stdout_pipe' = [stdout_pipe EXCEPT ![stdout] = Tail(@)]
            /\ UserReturn(u, "Ok")
       ELSE /\ proc[stdout] = "exited"
            /\ UserReturn(u, "NotConnected")
            /\ UNCHANGED <<user_line, stdout_pipe>>
    /\ stdout_lock' = 0
    /\ UNCHANGED <<handle_vars, child_lock, stdin_lock, spawned, proc, stdin_pipe,
                   user_op, user_msg, user_child, invoked, lifecycle, from_closed,
                   not_stdio>>

\* close: let mut child = self.child.lock().await
CloseLockChild(u) ==
    /\ user_pc[u] = "close"
    /\ child_lock = 0
    /\ child_lock' = u
    /\ user_pc' = [user_pc EXCEPT ![u] = "lock_stdin"]
    /\ from_closed' = [from_closed EXCEPT
                         ![u] = IF /\ child = 0 /\ stdin = 0 /\ stdout = 0
                                   /\ lifecycle # "started"
                                   /\ \A v \in Users : ~Starting(v)
                                THEN lifecycle ELSE "no"]
    /\ UNCHANGED <<handle_vars, stdin_lock, stdout_lock, process_vars, user_op, user_msg,
                   user_child, user_result, user_line, invoked, lifecycle, not_stdio>>

\* close: let mut stdin = self.stdin.lock().await
CloseLockStdin(u) ==
    /\ user_pc[u] = "lock_stdin"
    /\ stdin_lock = 0
    /\ stdin_lock' = u
    /\ user_pc' = [user_pc EXCEPT ![u] = "lock_stdout"]
    /\ UNCHANGED <<handle_vars, child_lock, stdout_lock, process_vars, user_op, user_msg,
                   user_child, user_result, user_line, invoked, lifecycle, from_closed,
                   not_stdio>>

\* A faulty close: without a child it fails with NotConnected.
CloseTake_needs_child(u) ==
    /\ user_pc[u] = "lock_stdout"
    /\ stdout_lock = 0
    /\ stdin' = 0
    /\ stdout' = 0
    /\ child' = 0
    /\ IF child # 0
       THEN /\ stdout_lock' = u
            /\ user_child' = [user_child EXCEPT ![u] = child]
            /\ user_pc' = [user_pc EXCEPT ![u] = "wait"]
            /\ UNCHANGED <<child_lock, stdin_lock, user_result, lifecycle>>
       ELSE /\ UserReturn(u, "NotConnected")
            /\ child_lock' = 0
            /\ stdin_lock' = 0
            /\ UNCHANGED <<stdout_lock, user_child, lifecycle>>
    /\ UNCHANGED <<process_vars, user_op, user_msg, user_line, invoked, from_closed,
                   not_stdio>>

\* close: self.stdout.lock().await, *stdin = None, *stdout = None and
\* child.take(); without a child it returns Ok and the three guards are dropped.
CloseTake(u) ==
    /\ user_pc[u] = "lock_stdout"
    /\ stdout_lock = 0
    /\ stdin' = 0
    /\ stdout' = 0
    /\ child' = 0
    /\ IF child # 0
       THEN /\ stdout_lock' = u
            /\ user_child' = [user_child EXCEPT ![u] = child]
            /\ user_pc' = [user_pc EXCEPT ![u] = "wait"]
            /\ UNCHANGED <<child_lock, stdin_lock, user_result, lifecycle>>
       ELSE /\ UserReturn(u, "Ok")
            /\ lifecycle' = IF lifecycle = "new" THEN "new" ELSE "closed"
            /\ child_lock' = 0
            /\ stdin_lock' = 0
            /\ UNCHANGED <<stdout_lock, user_child>>
    /\ UNCHANGED <<process_vars, user_op, user_msg, user_line, invoked, from_closed,
                   not_stdio>>

\* close: c.wait().await? returns when the process has exited, with its status
\* or with an error; the three guards are dropped.
CloseWait(u, ok) ==
    /\ user_pc[u] = "wait"
    /\ proc[user_child[u]] = "exited"
    /\ UserReturn(u, IF ok THEN "Ok" ELSE "Io")
    /\ lifecycle' = IF ok THEN "closed" ELSE lifecycle
    /\ child_lock' = 0
    /\ stdin_lock' = 0
    /\ stdout_lock' = 0
    /\ UNCHANGED <<handle_vars, process_vars, user_op, user_msg, user_child, user_line,
                   invoked, from_closed, not_stdio>>

\* The peer echoes a line of its input.
PeerEcho(k) ==
    /\ proc[k] = "running"
    /\ stdin_pipe[k] # <<>>
    /\ stdin_pipe' = [stdin_pipe EXCEPT ![k] = Tail(@)]
    /\ stdout_pipe' = [stdout_pipe EXCEPT ![k] = Append(@, Head(stdin_pipe[k]))]
    /\ UNCHANGED <<handle_vars, lock_vars, spawned, proc, user_vars, lifecycle,
                   from_closed, not_stdio>>

\* The peer exits, at the end of its input or for a reason of its own; what it
\* has not read is lost, what it wrote can still be read.
PeerExit(k) ==
    /\ proc[k] = "running"
    /\ proc' = [proc EXCEPT ![k] = "exited"]
    /\ stdin_pipe' = [stdin_pipe EXCEPT ![k] = <<>>]
    /\ UNCHANGED <<handle_vars, lock_vars, spawned, stdout_pipe, user_vars, lifecycle,
                   from_closed, not_stdio>>

StdioNext ==
    \/ \E u \in Users, o \in {"start", "send", "receive", "close"}, msg \in Frames :
          Invoke(u, o, msg)
    \/ \E u \in Users :
          \/ StartCheck(u)
          \/ \E ok \in BOOLEAN : StartSpawn(u, ok)
          \/ StartStoreStdin(u)
          \/ StartStoreStdout(u)
          \/ StartStoreChild(u)
          \/ SendLock(u)
          \/ SendWrite(u)
          \/ ReceiveLock(u)
          \/ ReceiveLine(u)
          \/ CloseLockChild(u)
          \/ CloseLockStdin(u)
          \/ CloseTake(u)
          \/ \E ok \in BOOLEAN : CloseWait(u, ok)
    \/ \E k \in Processes : PeerEcho(k) \/ PeerExit(k)

StdioSpec == Init /\ [][StdioNext]_vars

\* The steps of a task that has called an operation.
UserContinue(u) ==
    \/ StartCheck(u)
    \/ \E ok \in BOOLEAN : StartSpawn(u, ok)
    \/ StartStoreStdin(u)
    \/ StartStoreStdout(u)
    \/ StartStoreChild(u)
    \/ SendLock(u)
    \/ SendWrite(u)
    \/ ReceiveLock(u)
    \/ ReceiveLine(u)
    \/ CloseLockChild(u)
    \/ CloseLockStdin(u)
    \/ CloseTake(u)
    \/ \E ok \in BOOLEAN : CloseWait(u, ok)

\* The write end of the stdin pipe of process k exists: stored in the
\* transport or held by the start that is about to store it.
StdinOpen(k) ==
    \/ stdin = k
    \/ \E u \in Users : user_pc[u] = "store_stdin" /\ user_child[u] = k

\* Fair scheduling: the runtime keeps running the tasks, and a peer exits
\* when it finds the end of its input. A peer owes no output.
StdioFairSpec ==
    /\ StdioSpec
    /\ \A u \in Users : WF_vars(UserContinue(u))
    /\ \A k \in Processes : WF_vars(~StdinOpen(k) /\ PeerExit(k))

\* impl Transport for Arc<Mutex<T>>: a task calls an operation of the shared
\* transport and comes to self.lock().await.
ArcCall(u, o, msg) ==
    /\ user_pc[u] \in {"idle", "done"}
    /\ invoked < MaxOps
    /\ invoked' = invoked + 1
    /\ user_pc' = [user_pc EXCEPT ![u] = "lock"]
    /\ user_op' = [user_op EXCEPT ![u] = o]
    /\ user_msg' = [user_msg EXCEPT ![u] = IF o = "send" THEN msg ELSE ""]
    /\ user_child' = [user_child EXCEPT ![u] = 0]
    /\ user_result' = [user_result EXCEPT ![u] = "none"]
    /\ user_line' = [user_line EXCEPT ![u] = <<>>]
    /\ from_closed' = [from_closed EXCEPT ![u] = "no"]
    /\ UNCHANGED <<handle_vars, lock_vars, process_vars, lifecycle, not_stdio>>

\* The guard of the outer Mutex is held by the task that is inside an
\* operation of T: it is taken before T's operation is called and dropped when
\* the wrapper returns.
ArcLocked == \E v \in Users : user_pc[v] \notin {"idle", "done", "lock"}

\* let transport = self.lock().await; transport.<operation>().await
ArcLock(u) ==
    /\ user_pc[u] = "lock"
    /\ ~ArcLocked
    /\ user_pc' = [user_pc EXCEPT ![u] = user_op[u]]
    /\ UNCHANGED <<handle_vars, lock_vars, process_vars, user_op, user_msg, user_child,
                   user_result, user_line, invoked, lifecycle, from_closed, not_stdio>>

\* The StdioTransport shared as Arc<Mutex<StdioTransport>>.
ArcNext ==
    \/ \E u \in Users, o \in {"start", "send", "receive", "close"}, msg \in Frames :
          ArcCall(u, o, msg)
    \/ \E u \in Users : ArcLock(u)
    \/ \E u \in Users : UserContinue(u)
    \/ \E k \in Processes : PeerEcho(k) \/ PeerExit(k)

ArcSpec == Init /\ [][ArcNext]_vars

\* Fair scheduling of the tasks; tokio's Mutex hands the guard to its waiters
\* in turn. A peer exits at the end of its input and owes no output.
ArcFairSpec ==
    /\ ArcSpec
    /\ \A u \in Users : WF_vars(ArcLock(u))
    /\ \A u \in Users : WF_vars(UserContinue(u))
    /\ \A k \in Processes : WF_vars(~StdinOpen(k) /\ PeerExit(k))

\* The transport used without close: tasks call start, send and receive.
StartNext ==
    \/ \E u \in Users, o \in {"start", "send", "receive"}, msg \in Frames :
          Invoke(u, o, msg)
    \/ \E u \in Users :
          \/ StartCheck(u)
          \/ \E ok \in BOOLEAN : StartSpawn(u, ok)
          \/ StartStoreStdin(u)
          \/ StartStoreStdout(u)
          \/ StartStoreChild(u)
          \/ SendLock(u)
          \/ SendWrite(u)
          \/ ReceiveLock(u)
          \/ ReceiveLine(u)
    \/ \E k \in Processes : PeerEcho(k) \/ PeerExit(k)

StartSpec == Init /\ [][StartNext]_vars

\* ------------------------------- the subprocess transport (stdio_transport.rs)

\* The messages a client writes: of each variant, with different ids and
\* payloads.
ClientMessages ==
    {Request(1), Request(2), Notification, Response({1}, "error"), Response({2}, "result")}

\* The JSON object of a message, as the data model has it: a Request has id,
\* method and params, a Notification has no id, a Response has id and one of
\* result and error.
Serialize(message) ==
    [id |-> message.id,
     method |-> IF message.type \in {"Request", "Notification"} THEN {"method"} ELSE {},
     params |-> IF message.type \in {"Request", "Notification"} THEN {message.payload} ELSE {},
     result |-> IF message.type = "Response" /\ message.payload \in {"result", "both"}
                THEN {"result"} ELSE {},
     error |-> IF message.type = "Response" /\ message.payload \in {"error", "both"}
               THEN {"error"} ELSE {}]

\* The message of a JSON object: the variant follows from the members present;
\* an object that is none of the three is an invalid message.
Deserialize(line) ==
    IF line.method # {}
    THEN [type |-> IF line.id # {} THEN "Request" ELSE "Notification",
          id |-> line.id,
          payload |-> CHOOSE p \in line.params : TRUE]
    ELSE IF line.id # {} /\ (line.result = {}) # (line.error = {})
    THEN Response(line.id, IF line.result # {} THEN "result" ELSE "error")
    ELSE ReadErr("InvalidMessage")

\* The receiver of the read stream is alive: the loop that owns it runs.
ReadStreamAlive == loop # "stopped"

\* Some sender of the read stream is alive: the monitor and the reader task
\* each hold one until they end.
SenderAlive(m, r) == ~(m = "done" /\ r = "done")

\* monitor_child: child.wait().await returns the status of the exited child.
MonitorWait ==
    /\ monitor = "wait"
    /\ peer = "exited"
    /\ monitor' = "send"
    /\ UNCHANGED <<peer, peer_stdin, peer_stdout, reader, reader_line, writer, writer_msg,
                   taken, terminated_sent, received, transport_vars, not_connect>>

\* monitor_child: child.wait().await returns an error.
MonitorWaitError ==
    /\ monitor = "wait"
    /\ monitor' = "send"
    /\ UNCHANGED <<peer, peer_stdin, peer_stdout, reader, reader_line, writer, writer_msg,
                   taken, terminated_sent, received, transport_vars, not_connect>>

\* A faulty monitor_child: it reports the termination as a closed transport.
MonitorSend_as_closed ==
    /\ monitor = "send"
    /\ monitor' = "done"
    /\ read_open' = SenderAlive("done", reader)
    /\ IF ReadStreamAlive
       THEN /\ read_stream' = Append(read_stream, ReadErr("TransportClosed"))
            /\ terminated_sent' = terminated_sent + 1
       ELSE UNCHANGED <<read_stream, terminated_sent>>
    /\ UNCHANGED <<peer, peer_stdin, peer_stdout, reader, reader_line, writer, writer_msg,
                   taken, received, write_stream, not_connect>>

\* monitor_child: let _ = tx_read.send(Err(ReadError::ChildTerminated(msg))).await,
\* and the task ends.
MonitorSend ==
    /\ monitor = "send"
    /\ monitor' = "done"
    /\ read_open' = SenderAlive("done", reader)
    /\ IF ReadStreamAlive
       THEN /\ read_stream' = Append(read_stream, ReadErr("ChildTerminated"))
            /\ terminated_sent' = terminated_sent + 1
       ELSE UNCHANGED <<read_stream, terminated_sent>>
    /\ UNCHANGED <<peer, peer_stdin, peer_stdout, reader, reader_line, writer, writer_msg,
                   taken, received, write_stream, not_connect>>

\* A faulty reader task: the line it has read stays in the buffer.
ReaderNextLine_peek ==
    /\ reader = "next_line"
    /\ IF peer_stdout # <<>>
       THEN /\ reader_line' = <<Head(peer_stdout)>>
            /\ reader' = "send"
            /\ UNCHANGED <<peer_stdout, read_open>>
       ELSE /\ peer = "exited"
            /\ reader' = "done"
            /\ read_open' = SenderAlive(monitor, "done")
            /\ UNCHANGED <<peer_stdout, reader_line>>
    /\ UNCHANGED <<peer, peer_stdin, monitor, writer, writer_msg, taken, terminated_sent,
                   received, read_stream, write_stream, not_connect>>

\* A faulty reader task: it ends as soon as the child has exited, whatever is
\* left in the buffer.
ReaderNextLine_ends_at_exit ==
    /\ reader = "next_line"
    /\ IF peer = "exited"
       THEN /\ reader' = "done"
            /\ read_open' = SenderAlive(monitor, "done")
            /\ UNCHANGED <<peer_stdout, reader_line>>
       ELSE /\ peer_stdout # <<>>
            /\ reader_line' = <<Head(peer_stdout)>>
            /\ peer_stdout' = Tail(peer_stdout)
            /\ reader' = "send"
            /\ UNCHANGED read_open
    /\ UNCHANGED <<peer, peer_stdin, monitor, writer, writer_msg, taken, terminated_sent,
                   received, read_stream, write_stream, not_connect>>

\* The reader task: lines.next_line().await yields the next line, or None at
\* the end of the child's output, which ends the task.
ReaderNextLine ==
    /\ reader = "next_line"
    /\ IF peer_stdout # <<>>
       THEN /\ reader_line' = <<Head(peer_stdout)>>
            /\ peer_stdout' = Tail(peer_stdout)
            /\ reader' = "send"
            /\ UNCHANGED read_open
       ELSE /\ peer = "exited"
            /\ reader' = "done"
            /\ read_open' = SenderAlive(monitor, "done")
            /\ UNCHANGED <<peer_stdout, reader_line>>
    /\ UNCHANGED <<peer, peer_stdin, monitor, writer, writer_msg, taken, terminated_sent,
                   received, read_stream, write_stream, not_connect>>

\* The reader task: serde_json::from_str of the line and tx_read.send of the
\* message or of InvalidMessage; the task ends when the send of a message fails.
ReaderSend ==
    /\ reader = "send"
    /\ reader_line' = <<>>
    /\ IF ReadStreamAlive
       THEN /\ read_stream' = Append(read_stream, Deserialize(reader_line[1]))
            /\ reader' = "next_line"
            /\ UNCHANGED read_open
       ELSE /\ reader' = IF Deserialize(reader_line[1]).type = "Err"
                         THEN "next_line" ELSE "done"
            /\ read_open' = SenderAlive(monitor, reader')
            /\ UNCHANGED read_stream
    /\ UNCHANGED <<peer, peer_stdin, peer_stdout, monitor, writer, writer_msg, taken,
                   terminated_sent, received, write_stream, not_connect>>

\* The writer task: rx_write.recv().await yields the next message.
WriterRecv ==
    /\ writer = "recv"
    /\ taken < Len(write_stream)
    /\ writer_msg' = <<write_stream[taken + 1]>>
    /\ taken' = taken + 1
    /\ writer' = "write"
    /\ UNCHANGED <<peer, peer_stdin, peer_stdout, monitor, reader, reader_line,
                   terminated_sent, received, transport_vars, not_connect>>

\* The writer task: rx_write.recv().await yields None, the sender of the write
\* stream is gone with the loop that owned it; the task ends.
WriterRecvNone ==
    /\ writer = "recv"
    /\ taken = Len(write_stream)
    /\ loop = "stopped"
    /\ writer' = "done"
    /\ UNCHANGED <<peer, peer_stdin, peer_stdout, monitor, reader, reader_line, writer_msg,
                   taken, terminated_sent, received, transport_vars, not_connect>>

\* The writer task: serialize_message and write_to_transport, the JSON and a
\* newline; a write to the exited child fails and ends the task.
WriterWrite ==
    /\ writer = "write"
    /\ writer_msg' = <<>>
    /\ IF peer = "running"
       THEN /\ peer_stdin' = Append(peer_stdin, Serialize(writer_msg[1]))
            /\ writer' = "recv"
       ELSE /\ writer' = "done"
            /\ UNCHANGED peer_stdin
    /\ UNCHANGED <<peer, peer_stdout, monitor, reader, reader_line, taken,
                   terminated_sent, received, transport_vars, not_connect>>

\* The child (tee) echoes a line of its input.
ChildEcho ==
    /\ peer = "running"
    /\ peer_stdin # <<>>
    /\ peer_stdout' = Append(peer_stdout, Head(peer_stdin))
    /\ peer_stdin' = Tail(peer_stdin)
    /\ UNCHANGED <<peer, monitor, reader, reader_line, writer, writer_msg, taken,
                   terminated_sent, received, transport_vars, not_connect>>

\* The child exits; what it has not read is lost, what it wrote can still be
\* read.
ChildExit ==
    /\ peer = "running"
    /\ peer' = "exited"
    /\ peer_stdin' = <<>>
    /\ UNCHANGED <<peer_stdout, monitor, reader, reader_line, writer, writer_msg, taken,
                   terminated_sent, received, transport_vars, not_connect>>

\* A client writes a message to the write stream: tx.send(Ok(message)).
ClientSend(message) ==
    /\ Len(write_stream) < MaxFrames
    /\ writer # "done"
    /\ write_stream' = Append(write_stream, message)
    /\ UNCHANGED <<connect_vars, read_stream, read_open, not_connect>>

\* A client takes the next item of the read stream: rx.recv().
ClientRecv ==
    /\ read_stream # <<>>
    /\ received' = Append(received, Head(read_stream))
    /\ read_stream' = Tail(read_stream)
    /\ UNCHANGED <<peer, peer_stdin, peer_stdout, monitor, reader, reader_line, writer,
                   writer_msg, taken, terminated_sent, read_open, write_stream,
                   not_connect>>

ConnectTasks ==
    \/ MonitorWait
    \/ MonitorWaitError
    \/ MonitorSend
    \/ ReaderNextLine
    \/ ReaderSend
    \/ WriterRecv
    \/ WriterRecvNone
    \/ WriterWrite

\* The transport used as its tests use it: a client writes and reads, the child
\* echoes and may exit.
ConnectNext ==
    \/ MonitorWait
    \/ MonitorWaitError
    \/ MonitorSend
    \/ ReaderNextLine
    \/ ReaderSend
    \/ WriterRecv
    \/ WriterWrite
    \/ ChildEcho
    \/ ChildExit
    \/ \E message \in ClientMessages : ClientSend(message)
    \/ ClientRecv

ConnectSpec == Init /\ [][ConnectNext]_vars

\* A Session over the transport: the loop reads the read stream and writes the
\* write stream, whose receiver is alive as long as the writer task runs. The
\* loop never sees the read stream end (LoopIncomingNone): the monitor holds a
\* sender until it has reported, and the loop stops when it takes the report.
SubprocessNext ==
    \/ LoopShutdown
    \/ LoopOutgoing
    \/ LoopForward(writer # "done")
    \/ LoopIncoming
    \/ \E c \in Callers : Caller(c)
    \/ ConnectTasks
    \/ ChildEcho
    \/ ChildExit

SubprocessSpec == Init /\ [][SubprocessNext]_vars

\* Fair scheduling of the spawned tasks: the runtime keeps running the monitor,
\* the reader and the writer task, the Session's loop and the callers' tasks.
\* The child owes nothing.
SubprocessFairSpec ==
    /\ SubprocessSpec
    /\ WF_vars(MonitorWait)
    /\ WF_vars(MonitorSend)
    /\ WF_vars(ReaderNextLine)
    /\ WF_vars(ReaderSend)
    /\ WF_vars(WriterRecv)
    /\ WF_vars(WriterWrite)
    /\ WF_vars(LoopShutdown)
    /\ WF_vars(LoopOutgoing)
    /\ WF_vars(LoopForward(writer # "done"))
    /\ WF_vars(LoopIncoming)
    /\ \A c \in Callers : WF_vars(CallerContinue(c))

\* ------------------------------------- the SSE transport (sse_transport.rs)

\* A URL: its origin (scheme, host, port) and its path.
Url(scheme, host, port, path) ==
    [scheme |-> scheme, host |-> host, port |-> port, path |-> path]

\* The URL of the event stream: params.url.join("sse").
sse_url == Url("http", "server", 8000, "/sse")

\* The data of an endpoint event: a path, an absolute URL of this or of another
\* origin, or text that is no URL reference.
EndpointData ==
    {[kind |-> "path", url |-> Url("", "", 0, "/messages")],
     [kind |-> "absolute", url |-> Url("http", "server", 8000, "/messages")],
     [kind |-> "absolute", url |-> Url("http", "server", 9000, "/messages")],
     [kind |-> "absolute", url |-> Url("http", "other", 8000, "/messages")],
     [kind |-> "absolute", url |-> Url("https", "server", 8000, "/messages")],
     [kind |-> "invalid", url |-> Url("", "", 0, "")]}

\* The data of a message event: a JSON-RPC frame or other text.
MessageData ==
    {[kind |-> "frame", url |-> Url("", "", 0, "")],
     [kind |-> "garbage", url |-> Url("", "", 0, "")]}

\* The events of a peer: the event line and the data line arrive in one chunk
\* or in two.
SseEvents ==
    [event : {"endpoint"}, data : EndpointData, chunks : {1, 2}]
        \cup [event : {"message", "ping"}, data : MessageData, chunks : {1, 2}]

\* Url::join: an absolute URL replaces the base, a path keeps the origin of the
\* base; {} when the data is no URL reference.
join(base_url, data) ==
    CASE data.kind = "absolute" -> {data.url}
      [] data.kind = "path" ->
            {Url(base_url.scheme, base_url.host, base_url.port, data.url.path)}
      [] OTHER -> {}

\* The comparison handle_sse_events makes of a joined URL with the base.
OriginMismatch(url, base_url) ==
    url.scheme # base_url.scheme \/ url.host # base_url.host

\* connect: the GET of the event stream succeeds or fails; on success the event
\* handler and the POST handler are spawned and the streams are returned.
SseConnect(ok) ==
    /\ sse_connect = "new"
    /\ IF ok
       THEN /\ sse_connect' = "connected"
            /\ sse_handler' = "reading"
       ELSE /\ sse_connect' = "failed"
            /\ UNCHANGED sse_handler
    /\ UNCHANGED <<sse_stream, sse_emitted, endpoint_url, sse_read, sse_write, sse_sent,
                   sse_message, posted, discarded, not_sse>>

\* The peer puts an event on the event stream.
SsePeerEvent(event) ==
    /\ sse_connect = "connected"
    /\ sse_emitted < MaxEvents
    /\ sse_emitted' = sse_emitted + 1
    /\ sse_stream' = Append(sse_stream, event)
    /\ UNCHANGED <<sse_connect, sse_handler, endpoint_url, sse_read, sse_write, sse_sent,
                   sse_message, posted, discarded, not_sse>>

\* handle_sse_events, one event: an event whose data line is not yet in the
\* buffer when its event line is read is skipped; an endpoint event is joined
\* with the base, compared and stored, or ends the handler with an error; a
\* message event is sent to the read stream, as a message or as an error.
SseHandleEvent ==
    /\ sse_handler = "reading"
    /\ sse_stream # <<>>
    /\ sse_stream' = Tail(sse_stream)
    /\ LET event == Head(sse_stream) IN
       CASE event.chunks = 2 ->
                UNCHANGED <<sse_handler, endpoint_url, sse_read>>
         [] event.chunks = 1 /\ event.event = "endpoint" ->
                IF join(sse_url, event.data) = {}
                THEN UNCHANGED <<sse_handler, endpoint_url, sse_read>>
                ELSE LET url == CHOOSE u \in join(sse_url, event.data) : TRUE IN
                     IF OriginMismatch(url, sse_url)
                     THEN /\ sse_handler' = "failed"
                          /\ UNCHANGED <<endpoint_url, sse_read>>
                     ELSE /\ endpoint_url' = {url}
                          /\ UNCHANGED <<sse_handler, sse_read>>
         [] event.chunks = 1 /\ event.event = "message" ->
                /\ sse_read' = Append(sse_read, event.data.kind)
                /\ UNCHANGED <<sse_handler, endpoint_url>>
         [] OTHER ->
                UNCHANGED <<sse_handler, endpoint_url, sse_read>>
    /\ UNCHANGED <<sse_connect, sse_emitted, sse_write, sse_sent, sse_message, posted,
                   discarded, not_sse>>

\* The client of the transport writes a message to the write stream it got
\* from connect.
SseClientSend ==
    /\ sse_connect = "connected"
    /\ sse_sent < MaxFrames
    /\ sse_sent' = sse_sent + 1
    /\ sse_write' = Append(sse_write, sse_sent + 1)
    /\ UNCHANGED <<sse_connect, sse_stream, sse_emitted, sse_handler, endpoint_url,
                   sse_read, sse_message, posted, discarded, not_sse>>

\* The POST handler: rx_write.recv() yields a message.
PostRecv ==
    /\ sse_connect = "connected"
    /\ sse_message = <<>>
    /\ sse_write # <<>>
    /\ sse_message' = <<Head(sse_write)>>
    /\ sse_write' = Tail(sse_write)
    /\ UNCHANGED <<sse_connect, sse_stream, sse_emitted, sse_handler, endpoint_url,
                   sse_read, sse_sent, posted, discarded, not_sse>>

\* The POST handler: with Some(endpoint) stored it POSTs the message to it,
\* with None it goes on to the next message.
PostSend ==
    /\ sse_message # <<>>
    /\ sse_message' = <<>>
    /\ IF endpoint_url # {}
       THEN /\ posted' = Append(posted, <<CHOOSE u \in endpoint_url : TRUE,
                                          sse_message[1]>>)
            /\ UNCHANGED discarded
       ELSE /\ discarded' = discarded + 1
            /\ UNCHANGED posted
    /\ UNCHANGED <<sse_connect, sse_stream, sse_emitted, sse_handler, endpoint_url,
                   sse_read, sse_write, sse_sent, not_sse>>

SseNext ==
    \/ \E ok \in BOOLEAN : SseConnect(ok)
    \/ \E event \in SseEvents : SsePeerEvent(event)
    \/ SseHandleEvent
    \/ SseClientSend
    \/ PostRecv
    \/ PostSend

SseSpec == Init /\ [][SseNext]_vars

\* ------------------------------------------------------------------ claims

\* The callers whose request is parked in the pending list.
Parked == {pending_requests[i][2] : i \in 1..Len(pending_requests)}

\* A Response that matches no entry of the pending list.
Unmatched(response) ==
    \A id \in response.id : \A i \in 1..Len(pending_requests) : pending_requests[i][1] # id

\* C1: each request's waiter is delivered at most one outcome: its response
\* channel never holds two, and once it holds one (or the caller has returned)
\* no sender for it is left in the outgoing channel, in the loop's hand or in
\* the pending list, so no later event can deliver a second.
C1_AtMostOneOutcome ==
    \A c \in Callers :
        /\ Len(response_rx[c]) <= 1
        /\ (response_rx[c] # <<>> \/ pc[c] = "done") => ~TxAlive(c)

\* A duplicate of a Response arrives while the first is still in the caller's
\* response channel.
C1_Witness ==
    \E c \in Callers :
        /\ response_rx[c] # <<>>
        /\ req_id[c] # {}
        /\ loop = "select"
        /\ read_stream # <<>>
        /\ Head(read_stream).type = "Response"
        /\ Head(read_stream).id = req_id[c]

\* C3: an rpc_call or send_notification invoked while is_closed is set returns
\* "Session is closed" at once: nothing is put on the outgoing channel, nothing
\* is written to the transport and no id is taken.
C3_ClosedRejects ==
    [][\A c \in Callers :
          (/\ is_closed
           /\ pc[c] = "idle"
           /\ pc'[c] # "idle"
           /\ op'[c] \in {"rpc_call", "send_notification"})
          => /\ pc'[c] = "done"
             /\ result'[c] = "Session is closed"
             /\ request_q' = request_q
             /\ outgoing' = outgoing
             /\ write_stream' = write_stream
             /\ id_counter' = id_counter]_vars

\* A call made after the loop has stopped was rejected before it took an id.
C3_Witness ==
    \E c \in Callers :
        /\ op[c] = "rpc_call"
        /\ pc[c] = "done"
        /\ result[c] = "Session is closed"
        /\ req_id[c] = {}
        /\ loop = "stopped"

\* C4: when the loop takes a Response whose id matches no pending request (or
\* that has no id), the pending list, the closed flag, every response channel
\* and every caller are unchanged and the loop goes on selecting.
C4_UnmatchedResponseDiscarded ==
    [][(/\ LoopIncoming
        /\ Head(read_stream).type = "Response"
        /\ Unmatched(Head(read_stream)))
       => /\ pending_requests' = pending_requests
          /\ is_closed' = is_closed
          /\ loop' = "select"
          /\ response_rx' = response_rx
          /\ pc' = pc
          /\ result' = result
          /\ request_q' = request_q
          /\ read_stream' = Tail(read_stream)]_vars

\* A Response for an id already resolved arrives while another request is
\* parked.
C4_Witness ==
    \E c \in Callers :
        /\ pc[c] = "done"
        /\ result[c] = "Ok"
        /\ req_id[c] # {}
        /\ loop = "select"
        /\ read_stream # <<>>
        /\ Head(read_stream).type = "Response"
        /\ Head(read_stream).id = req_id[c]
        /\ pending_requests # <<>>

\* C5: every Response a caller receives carries the id of that caller's own
\* request.
C5_CorrelationById ==
    \A c \in Callers : \A i \in 1..Len(response_rx[c]) :
        \A response \in response_rx[c][i].response :
            req_id[c] # {} /\ response.id = req_id[c]

\* Two requests were forwarded in the order 1, 2; the caller of 2 already has
\* its result while the Response for 1 has just been delivered.
C5_Witness ==
    \E c1, c2 \in Callers :
        /\ req_id[c1] = {FirstId}
        /\ req_id[c2] = {FirstId + 1}
        /\ write_stream = <<Request(FirstId), Request(FirstId + 1)>>
        /\ pc[c2] = "done"
        /\ result[c2] = "Ok"
        /\ response_rx[c1] = <<OkSome(Response({FirstId}, "result"))>>

\* The loop takes a fatal read error from the read stream.
TakesFatalReadError ==
    /\ LoopIncoming
    /\ Head(read_stream).type = "Err"
    /\ Head(read_stream).payload \in {"TransportClosed", "ChildTerminated"}

\* What send_message returns when its response channel yields an error, and
\* when it yields nothing because every sender was dropped.
ReceiveReturnsTheFailure ==
    \A c \in Callers :
        (pc[c] = "wait" /\ pc'[c] = "done")
        => result'[c] = IF response_rx[c] = <<>> THEN "Failed to receive response"
                        ELSE IF ~Head(response_rx[c]).ok THEN Head(response_rx[c]).error
                        ELSE result'[c]

\* C2 (as amended): when the loop takes TransportClosed or ChildTerminated from
\* the read stream, every request parked in the pending list is failed with
\* the description of that read error (the two descriptions differ), the
\* closed flag is set and the loop stops; a request that is still queued for
\* the loop is dropped with no outcome, and its call returns "Failed to
\* receive response".
C2_FatalReadErrorFailsParked ==
    [][/\ TakesFatalReadError
          => LET text == ReadErrorToString(Head(read_stream).payload) IN
             /\ \A c \in Parked : response_rx'[c] = <<Err(text)>>
             /\ \A c \in Callers \ Parked : response_rx'[c] = response_rx[c]
             /\ \A c \in Callers : ~TxAlive(c)'
             /\ pending_requests' = <<>>
             /\ is_closed'
             /\ loop' = "stopped"
             /\ ReadErrorToString("TransportClosed") # ReadErrorToString("ChildTerminated")
       /\ ReceiveReturnsTheFailure]_vars

\* Both callers were parked when the child terminated, and both were failed
\* with that cause.
C2_Witness ==
    /\ loop = "stopped"
    /\ \A c \in Callers :
          response_rx[c] = <<Err(ReadErrorToString("ChildTerminated"))>>

\* C2 as stated: every request submitted and not yet resolved, queued for the
\* loop or parked, is failed with the description of the read error.
C2_Original ==
    [][TakesFatalReadError
       => \A c \in Callers :
             (op[c] = "rpc_call" /\ TxAlive(c))
             => response_rx'[c] =
                    <<Err(ReadErrorToString(Head(read_stream).payload))>>]_vars

\* C8: when the send to the write stream fails, the closed flag is set, every
\* parked request is failed with "Transport closed", the loop stops, nothing
\* is written, and the call whose send failed is left with no sender and no
\* outcome, so that it returns "Failed to receive response"; the loop never
\* stops without the closed flag set, so every later call is rejected (C3).
C8_WriteFailureIsFatal ==
    [][/\ LoopForward(FALSE)
          => /\ is_closed'
             /\ loop' = "stopped"
             /\ \A c \in Parked : response_rx'[c] = <<Err("Transport closed")>>
             /\ pending_requests' = <<>>
             /\ write_stream' = write_stream
             /\ response_rx'[outgoing[1].response_tx] = <<>>
             /\ ~TxAlive(outgoing[1].response_tx)'
       /\ ReceiveReturnsTheFailure
       /\ loop' = "stopped" => is_closed']_vars

\* A request is parked, the next send fails: the parked caller holds
\* "Transport closed", the failing caller has nothing to receive.
C8_Witness ==
    \E c1, c2 \in Callers :
        /\ loop = "stopped"
        /\ is_closed
        /\ response_rx[c1] = <<Err("Transport closed")>>
        /\ pc[c2] = "wait"
        /\ response_rx[c2] = <<>>
        /\ ~TxAlive(c2)

\* C9: when the loop takes ReadError::InvalidMessage or a Notification from the
\* read stream, the closed flag, the pending list, the response channels and
\* the callers are unchanged, and the loop goes on selecting with the rest of
\* the read stream.
C9_NonFatalInbound ==
    [][(/\ LoopIncoming
        /\ \/ Head(read_stream) = ReadErr("InvalidMessage")
           \/ Head(read_stream).type = "Notification")
       => /\ is_closed' = is_closed
          /\ pending_requests' = pending_requests
          /\ loop' = "select"
          /\ response_rx' = response_rx
          /\ pc' = pc
          /\ request_q' = request_q
          /\ read_stream' = Tail(read_stream)]_vars

\* The session is open, a request is parked and the loop is about to take a
\* malformed frame from the read stream.
C9_Witness ==
    /\ ~is_closed
    /\ loop = "select"
    /\ pending_requests # <<>>
    /\ read_stream # <<>>
    /\ Head(read_stream) = ReadErr("InvalidMessage")

\* C6 (as amended): once the session is closed, every caller that is inside a
\* call eventually returns, under fair scheduling of the loop and the callers.
\* It returns an error, with one exception: between shutdown() setting the flag
\* and the loop taking the shutdown signal, the loop still delivers a Response
\* it takes from the read stream. Once the loop has stopped, a caller with no
\* outcome in its channel returns "Failed to send message" or "Failed to
\* receive response".
C6_ClosedUnblocksCallers ==
    /\ \A c \in Callers :
          (is_closed /\ pc[c] \notin {"idle", "done"}) ~> (pc[c] = "done")
    /\ [][\A c \in Callers :
             /\ (/\ is_closed
                 /\ op[c] = "rpc_call"
                 /\ TxAlive(c)
                 /\ response_rx'[c] # <<>>
                 /\ RpcCallResult(Head(response_rx'[c])) = "Ok")
                => /\ LoopIncoming
                   /\ \E s \in Callers :
                         /\ op[s] = "shutdown"
                         /\ pc[s] \in {"shutdown_send", "shutdown_lock",
                                       "shutdown_join"}
             /\ (/\ loop = "stopped"
                 /\ pc[c] \in {"enqueue", "wait"}
                 /\ response_rx[c] = <<>>
                 /\ pc'[c] = "done")
                => result'[c] \in {"Failed to send message",
                                   "Failed to receive response"}]_vars

\* The session closed on a fatal read error with one request parked and one
\* still queued: both callers have returned an error.
C6_Witness ==
    \E c1, c2 \in Callers :
        /\ is_closed
        /\ loop = "stopped"
        /\ op[c1] = "rpc_call" /\ pc[c1] = "done"
        /\ result[c1] = ReadErrorToString("TransportClosed")
        /\ op[c2] = "rpc_call" /\ pc[c2] = "done"
        /\ result[c2] = "Failed to receive response"

\* C6 as stated, its safety half: once the session is closed, a request still
\* awaiting a Response is given nothing but a failure.
C6_Original ==
    [][\A c \in Callers :
          (/\ is_closed
           /\ op[c] = "rpc_call"
           /\ TxAlive(c)
           /\ response_rx'[c] # <<>>)
          => RpcCallResult(Head(response_rx'[c])) # "Ok"]_vars

\* C7 as stated: when the loop finds the read stream ended while requests are
\* outstanding, it closes the session and fails them.
C7_EndOfStreamIsFatal ==
    [][(LoopIncomingNone /\ \E c \in Callers : TxAlive(c))
       => /\ is_closed'
          /\ loop' = "stopped"
          /\ \A c \in Parked : response_rx'[c] # <<>>]_vars

\* C10 (as amended): shutdown() sets the closed flag; when the loop takes the
\* shutdown signal, every request then in the pending list is failed with
\* "Session shutdown" and the loop stops; shutdown() returns only once the
\* loop has stopped; a call made after it has returned gets "Session is
\* closed".
C10_Shutdown ==
    [][/\ \A c \in Callers : Shutdown(c) => is_closed'
       /\ LoopShutdown
          => /\ \A c \in Parked : response_rx'[c] = <<Err("Session shutdown")>>
             /\ pending_requests' = <<>>
             /\ loop' = "stopped"
       /\ \A c \in Callers :
             (op[c] = "shutdown" /\ pc[c] # "done" /\ pc'[c] = "done")
             => (loop' = "stopped" /\ is_closed')
       /\ \A c \in Callers :
             (/\ \E s \in Callers : op[s] = "shutdown" /\ pc[s] = "done"
              /\ pc[c] = "idle"
              /\ pc'[c] # "idle"
              /\ op'[c] \in {"rpc_call", "send_notification"})
             => result'[c] = "Session is closed"]_vars

\* shutdown() was called with a request parked, that request was failed with
\* "Session shutdown", and shutdown() has returned Ok.
C10_Witness ==
    \E s, c \in Callers :
        /\ op[s] = "shutdown" /\ pc[s] = "done" /\ result[s] = "Ok"
        /\ c \in parked_at_shutdown
        /\ pc[c] = "done"
        /\ result[c] = "Session shutdown"

\* C10 as stated: each request that was parked when shutdown() closed the open
\* session receives "Session shutdown" and nothing else.
C10_Original ==
    [][\A c \in parked_at_shutdown :
          (response_rx[c] = <<>> /\ response_rx'[c] # <<>>)
          => response_rx'[c] = <<Err("Session shutdown")>>]_vars

\* C11 as stated: a shutdown() invoked when the background loop has already
\* stopped (after a completed shutdown or after a fatal transport error)
\* returns success.
C11_ShutdownIdempotent ==
    \A c \in called_on_stopped : pc[c] = "done" => result[c] = "Ok"

\* C12: once the closed flag is true it stays true, and once the background
\* loop has stopped it stays stopped, whatever call, inbound frame or error
\* comes next.
C12_OneWayLifecycle ==
    [][/\ is_closed => is_closed'
       /\ loop = "stopped" => loop' = "stopped"]_vars

\* The loop stopped on a fatal read error; afterwards shutdown() was invoked
\* and has returned, and a call was rejected: the session is still closed.
C12_Witness ==
    /\ is_closed
    /\ loop = "stopped"
    /\ \E c \in called_on_stopped : pc[c] = "done"
    /\ \E c \in Callers : op[c] = "rpc_call" /\ result[c] = "Session is closed"

\* The callers that have obtained a request id.
WithId == {c \in Callers : req_id[c] # {}}

\* C13: request ids start at 1 and are never reused: the ids obtained are
\* pairwise different and are exactly the numbers from 1 up to the counter,
\* whether the calls ran concurrently, failed or succeeded; a notification
\* carries no id and takes none from the counter, so that the request after
\* initialize (id 1) and its notification has id 2.
C13_RequestIds ==
    /\ id_counter = FirstId + Cardinality(WithId)
    /\ \A c \in WithId : req_id[c] \subseteq FirstId..(id_counter - 1)
    /\ \A c, d \in WithId : c # d => req_id[c] \cap req_id[d] = {}
    /\ \A c \in Callers : op[c] = "send_notification" => req_id[c] = {}
    /\ \A i \in 1..Len(accepted) :
          accepted[i].type = "Notification" => accepted[i].id = {}

\* initialize took id 1 and sent its notification; the request after it was
\* forwarded with id 2.
C13_Witness ==
    /\ \E c \in Callers :
          /\ op[c] = "initialize_notification"
          /\ pc[c] = "done"
          /\ result[c] = "Ok"
          /\ req_id[c] = {FirstId}
    /\ write_stream = <<Request(FirstId), Notification, Request(FirstId + 1)>>

\* s is the beginning of t.
IsPrefix(s, t) == Len(s) <= Len(t) /\ SubSeq(t, 1, Len(s)) = s

\* The messages of a sequence of OutgoingMessages.
Messages(q) == [i \in 1..Len(q) |-> q[i].message]

\* C14 (as amended): ids are handed out in increasing order and a request
\* accepted onto the outgoing channel before another request's id is taken
\* carries the smaller id and reaches the transport first: when rpc_call takes
\* an id, it is larger than the id of every request accepted so far, and the
\* requests reach the write stream in the order they were accepted. (Two
\* concurrent calls may be accepted, and so forwarded, against the order of
\* their ids.)
C14_IdsIncreaseWithAcceptance ==
    [][/\ \A c \in Callers :
             AllocId(c)
             => /\ req_id'[c] = {id_counter}
                /\ \A i \in 1..Len(accepted) : \A id \in accepted[i].id : id < id_counter
                /\ \A d \in Callers : \A id \in req_id[d] : id < id_counter
       /\ \A i \in 1..Len(write_stream') : write_stream'[i] = accepted'[i]]_vars

\* Two requests issued one after the other reached the transport in the order
\* of their ids.
C14_Witness ==
    /\ accepted = <<Request(FirstId), Request(FirstId + 1)>>
    /\ write_stream = accepted

\* C14 as stated: of any two requests on the write stream the earlier one
\* carries the smaller id.
C14_Original ==
    \A i, j \in 1..Len(write_stream) :
        (i < j /\ write_stream[i].type = "Request" /\ write_stream[j].type = "Request")
        => \A a \in write_stream[i].id : \A b \in write_stream[j].id : a < b

\* C15: what has reached the transport, followed by the message the loop has
\* in hand, is always the beginning of the sequence of messages accepted onto
\* the outgoing channel, each once and in that order; while the session is
\* open, the rest of that sequence is what the channel still holds.
C15_ForwardedInAcceptedOrder ==
    /\ IsPrefix(write_stream \o Messages(outgoing), accepted)
    /\ (~is_closed /\ loop # "stopped")
       => accepted = write_stream \o Messages(outgoing) \o Messages(request_q)

\* A notification and then a request were accepted, and both have reached the
\* transport in that order.
C15_Witness ==
    /\ ~is_closed
    /\ Len(accepted) = 2
    /\ accepted[1].type = "Notification"
    /\ accepted[2].type = "Request"
    /\ write_stream = accepted

\* The loop takes from the read stream a Response that carries an error
\* object and whose id is the id of a parked request.
TakesErrorResponse ==
    /\ LoopIncoming
    /\ Head(read_stream).type = "Response"
    /\ Head(read_stream).payload \in {"error", "both"}
    /\ ~Unmatched(Head(read_stream))

\* C16: when the loop takes a Response with an error object for a parked
\* request, that Response is delivered to the caller parked under its id and
\* to nobody else, the closed flag is unchanged, the loop goes on, and every
\* other parked request stays parked; the rpc_call that receives such a
\* Response returns an RPC error.
C16_RpcErrorToItsCaller ==
    [][/\ TakesErrorResponse
          => \E c \in Parked :
                /\ req_id[c] = Head(read_stream).id
                /\ response_rx'[c] = <<OkSome(Head(read_stream))>>
                /\ \A d \in Callers \ {c} : response_rx'[d] = response_rx[d]
                /\ {pending_requests'[i][2] : i \in 1..Len(pending_requests')} = Parked \ {c}
                /\ is_closed' = is_closed
                /\ loop' = "select"
                /\ request_q' = request_q
       /\ \A c \in Callers :
             (/\ op[c] = "rpc_call"
              /\ pc[c] = "wait"
              /\ pc'[c] = "done"
              /\ response_rx[c] # <<>>
              /\ \E r \in Head(response_rx[c]).response : r.payload \in {"error", "both"})
             => result'[c] = "RPC Error"]_vars

\* A call has returned an RPC error; the session is open, the loop is running
\* and another request is still parked.
C16_Witness ==
    \E c \in Callers :
        /\ op[c] = "rpc_call"
        /\ pc[c] = "done"
        /\ result[c] = "RPC Error"
        /\ ~is_closed
        /\ loop = "select"
        /\ Parked # {}

\* C17: when the loop has forwarded a Notification it acknowledges the caller
\* in the same step, with Ok(None), and adds nothing to the pending list; a
\* caller of send_notification is never in the pending list and never
\* receives a Response.
C17_NotificationHasNoWaiter ==
    [][/\ (LoopForward(TRUE) /\ outgoing[1].message.type = "Notification")
          => /\ pending_requests' = pending_requests
             /\ response_rx'[outgoing[1].response_tx] = <<OkNone>>
             /\ write_stream' = Append(write_stream, Notification)
             /\ read_stream' = read_stream
       /\ \A c \in Callers :
             op'[c] = "send_notification"
             => /\ \A i \in 1..Len(pending_requests') : pending_requests'[i][2] # c
                /\ \A i \in 1..Len(response_rx'[c]) : response_rx'[c][i].response = {}]_vars

\* A notification was forwarded and acknowledged while a request is still
\* parked and nothing is on the read stream.
C17_Witness ==
    \E c \in Callers :
        /\ op[c] = "send_notification"
        /\ response_rx[c] = <<OkNone>>
        /\ pending_requests # <<>>
        /\ read_stream = <<>>

\* The callers running initialize, in its rpc_call or in its notification.
Initializing == {c \in Callers : op[c] \in {"initialize", "initialize_notification"}}

\* C18: initialize goes on to its notification only from a successful Response
\* to its own request; while it is in its rpc_call, no Notification of it is
\* queued or in the loop's hand; it returns success only when the loop has
\* acknowledged the notification as forwarded, and returns the error otherwise.
C18_InitializedAfterSuccess ==
    [][\A c \in Callers :
          /\ (pc'[c] = "initialized" /\ pc[c] # "initialized")
             => /\ op[c] = "initialize"
                /\ response_rx[c] = <<OkSome(Response(req_id[c], "result"))>>
          /\ (op'[c] = "initialize_notification" /\ op[c] # "initialize_notification")
             => pc[c] = "initialized"
          /\ op'[c] = "initialize"
             => /\ \A i \in 1..Len(request_q') :
                      request_q'[i].response_tx = c => request_q'[i].message.type = "Request"
                /\ \A i \in 1..Len(outgoing') :
                      outgoing'[i].response_tx = c => outgoing'[i].message.type = "Request"
          /\ (c \in Initializing /\ pc[c] # "done" /\ pc'[c] = "done")
             => IF op[c] = "initialize_notification" /\ response_rx[c] = <<OkNone>>
                THEN result'[c] = "Ok"
                ELSE result'[c] # "Ok"]_vars

\* initialize has returned success: its request and then its notification have
\* reached the transport.
C18_Witness ==
    \E c \in Callers :
        /\ op[c] = "initialize_notification"
        /\ pc[c] = "done"
        /\ result[c] = "Ok"
        /\ write_stream = <<Request(FirstId), Notification>>

\* The callers that dropped their waiter.
Dropped == {c \in Callers : pc[c] = "dropped"}

\* C19: a delivery to a waiter that was dropped is a no-op. When the loop takes
\* the Response for a dropped waiter's id, the entry leaves the pending list
\* and nothing else changes: no channel, not the closed flag, not the other
\* entries, and the loop goes on selecting. When the loop fails the pending
\* list (shutdown, fatal read error, write failure), every parked caller that
\* is still waiting receives its failure, wherever the dropped waiters stand
\* in the list. Nothing is ever delivered to a dropped waiter.
C19_DroppedWaiterIsNoOp ==
    [][/\ (/\ LoopIncoming
           /\ Head(read_stream).type = "Response"
           /\ \E c \in Parked \cap Dropped : req_id[c] = Head(read_stream).id)
          => /\ response_rx' = response_rx
             /\ {pending_requests'[i][2] : i \in 1..Len(pending_requests')}
                  = Parked \ {c \in Parked : req_id[c] = Head(read_stream).id}
             /\ is_closed' = is_closed
             /\ loop' = "select"
             /\ request_q' = request_q
             /\ read_stream' = Tail(read_stream)
       /\ (/\ Parked \cap Dropped # {}
           /\ LoopShutdown \/ TakesFatalReadError \/ LoopForward(FALSE))
          => /\ \A d \in Parked \ Dropped : Len(response_rx'[d]) = 1 /\ ~response_rx'[d][1].ok
             /\ pending_requests' = <<>>
       /\ \A c \in Dropped : response_rx'[c] = <<>>]_vars

\* The first request's waiter was dropped while parked and its entry has left
\* the pending list; the second request was answered afterwards and the session
\* is still open.
C19_Witness ==
    \E c, d \in Callers :
        /\ pc[c] = "dropped"
        /\ req_id[c] = {FirstId}
        /\ ~TxAlive(c)
        /\ write_stream = <<Request(FirstId), Request(FirstId + 1)>>
        /\ pc[d] = "done"
        /\ result[d] = "Ok"
        /\ ~is_closed
        /\ loop = "select"

\* The calls whose transport.start() failed, or that were dropped inside it.
StartFailed ==
    {c \in ServiceCalls : \/ service_result[c] = "Transport error"
                          \/ service_pc[c] = "dropped_in_start"}

\* The calls that are between calling transport.start() and storing the flag.
Initializer == {c \in ServiceCalls : service_pc[c] \in {"starting", "create", "store"}}

\* C20 (as amended): transport.start() never runs twice at the same time and
\* succeeds at most once: it is called once, plus once for each earlier call
\* whose start() failed or that was dropped inside start() (such a call leaves
\* the service uninitialized); at most one MessageRouter is created; every call
\* that gets a router gets that one, after start() has completed and the flag
\* is set; poll_ready reports ready in every state.
C20_LazyInitOnce ==
    /\ Cardinality(Initializer) <= 1
    /\ start_calls = Cardinality(StartFailed) + Cardinality(Initializer) + routers_created
                       - Cardinality({c \in ServiceCalls : service_pc[c] = "store"})
    /\ routers_created <= 1
    /\ initialized => (router = 1 /\ routers_created = 1 /\ Initializer = {})
    /\ \A c \in ServiceCalls :
          /\ service_router[c] # 0
             => (initialized /\ service_router[c] = router /\ service_result[c] = "Ok")
          /\ service_result[c] = "Ok" => service_router[c] # 0
          /\ service_result[c] # "Transport not initialized"
    /\ poll_ready = "Ready(Ok(()))"

\* Two first calls ran concurrently: one has its router, the other passed the
\* first check before the flag was set and now holds the lock for the second
\* check; start() was called once.
C20_Witness ==
    \E c, d \in ServiceCalls :
        /\ service_router[c] = 1
        /\ service_pc[d] = "recheck"
        /\ initialized
        /\ start_calls = 1

\* C20 as stated: transport.start() is executed once.
C20_Original ==
    start_calls <= 1

\* The Response the router's latest call returned, if it returned one.
Responses == IF request.method = "none" THEN {} ELSE reply.response

\* The tool the latest request names, if it names one.
NamedTool == IF request.params.present THEN request.params.name ELSE {}

\* C21: a tools/call whose handler returns an error is answered with a normal
\* Response (the request's id, a result, no error) whose payload has is_error
\* true and content that is not empty; when the handler succeeds is_error is
\* false. The call is never a service-level failure.
C21_HandlerFailureIsData ==
    \A inv \in called :
        /\ reply.ok
        /\ reply.response # {}
        /\ \A r \in reply.response :
              /\ r.id = request.id
              /\ r.error = {}
              /\ r.result # {}
              /\ \A v \in r.result :
                    /\ v.kind = "CallToolResult"
                    /\ v.is_error = ~inv.ok
                    /\ Len(v.content) > 0

\* The handler of a registered tool was invoked and failed.
C21_Witness ==
    /\ request.method = "tools/call"
    /\ \E inv \in called : ~inv.ok
    /\ \E r \in reply.response : \E v \in r.result : v.is_error

\* The names tools/list returns.
ListedTools ==
    UNION {UNION {v.tools : v \in r.result} : r \in handle_tools_list(request).response}

\* The handler registered last under the name n.
LastRegistered(n) ==
    LET at == {i \in 1..Len(registered) : registered[i].name = n}
    IN  {registered[i] : i \in {j \in at : \A k \in at : k <= j}}

\* C22: whatever was registered, the same name twice included, tools/list
\* returns exactly the names registered, and a tools/call invokes a handler if
\* and only if the name it gives is in that list; the handler invoked is the
\* one registered last under the name.
C22_ListIsRegistry ==
    built =>
       /\ ListedTools = {registered[i].name : i \in 1..Len(registered)}
       /\ request.method = "tools/list"
             => \A r \in reply.response : \A v \in r.result : v.tools = ListedTools
       /\ request.method = "tools/call"
             => /\ (called # {}) <=> (NamedTool \cap ListedTools # {})
                /\ \A inv \in called :
                      /\ inv.tool.name \in NamedTool
                      /\ inv.tool \in LastRegistered(inv.tool.name)
       /\ request.method # "tools/call" => called = {}

\* A name was registered twice and another not at all; the tool registered
\* twice was called.
C22_Witness ==
    /\ built
    /\ \E i, j \in 1..Len(registered) : i < j /\ registered[i].name = registered[j].name
    /\ ListedTools # ToolNames
    /\ request.method = "tools/call"
    /\ \E inv \in called : inv.tool.impl = 2

\* The latest call was answered with a method-not-found error Response.
MethodNotFound ==
    /\ reply.ok
    /\ \E r \in Responses :
          /\ r.id = request.id
          /\ r.result = {}
          /\ \E e \in r.error : e.code = ErrorCode("MethodNotFound")

\* C23 as stated: a request is answered with method-not-found if and only if
\* its method is none of initialize, tools/list, tools/call, resources/list and
\* resources/read.
C23_DispatchTable ==
    request.method # "none" =>
       (MethodNotFound <=>
           request.method \notin {"initialize", "tools/list", "tools/call",
                                  "resources/list", "resources/read"})

\* C24: the tools capability is advertised exactly when a tool is registered,
\* initialize returns the capabilities of the router, they agree with
\* tools/list, and neither the registry nor the capabilities change once the
\* router is built.
C24_CapabilitiesFromRegistry ==
    /\ [](built =>
            /\ (capabilities.tools # {}) <=> (registered # <<>>)
            /\ (capabilities.tools # {}) <=> (ListedTools # {})
            /\ request.method = "initialize"
                  => \A r \in reply.response : \A v \in r.result :
                        v.capabilities = capabilities)
    /\ [][built => built' /\ tools' = tools /\ capabilities' = capabilities]_vars

\* A router without tools answered initialize: no tools capability.
C24_Witness ==
    /\ built
    /\ registered = <<>>
    /\ builder_prompts # {}
    /\ request.method = "initialize"
    /\ \E r \in reply.response : \E v \in r.result : v.capabilities.tools = {}

\* C25: every Response the router returns carries the id of the request and
\* has either a result or an error, not both and not neither.
C25_ResponseShape ==
    \A r \in Responses :
        /\ r.id = request.id
        /\ (r.result = {}) # (r.error = {})

\* A request with an id was answered with an error Response.
C25_Witness ==
    /\ request.id = {1}
    /\ \E r \in Responses : r.error # {} /\ r.id = {1}

\* The latest request is a tools/call that names a tool the registry lacks.
CallsUnknownTool ==
    /\ request.method = "tools/call"
    /\ NamedTool # {}
    /\ \A n \in NamedTool : Get(tools, n) = {}

\* C26 as stated: a tools/call for a tool that is not registered invokes no
\* handler, is no success, and its error has a code of its own, which is none
\* of the method-not-found, invalid-params, invalid-request and internal-error
\* codes.
C26_UnknownToolCode ==
    CallsUnknownTool =>
       /\ called = {}
       /\ ~reply.ok
       /\ ErrorCode(reply.error) \notin
             {"METHOD_NOT_FOUND", "INVALID_PARAMS", "INVALID_REQUEST", "INTERNAL_ERROR"}

\* The transport was never started, or a close has returned Ok and no start
\* has returned Ok since; and no start is under way.
Unconnected ==
    /\ lifecycle \in {"new", "closed"}
    /\ \A u \in Users : ~Starting(u)

\* The operation o of task u returns in this step.
Returns(u, o) ==
    /\ user_op[u] = o
    /\ user_pc[u] \notin {"idle", "done"}
    /\ user_pc'[u] = "done"

\* C29: a transport that was never started or that a close has closed holds no
\* child and no handle; every close that returns leaves it so; and a close
\* invoked on such a transport returns Ok and changes nothing.
C29_CloseIdempotent ==
    /\ [](Unconnected => child = 0 /\ stdin = 0 /\ stdout = 0)
    /\ [][\A u \in Users :
            Returns(u, "close") =>
               /\ child' = 0 /\ stdin' = 0 /\ stdout' = 0
               /\ from_closed[u] # "no" =>
                     /\ user_result'[u] = "Ok"
                     /\ UNCHANGED <<handle_vars, process_vars>>]_vars

\* A close has closed the started transport, and a further close has returned Ok.
C29_Witness ==
    \E u \in Users :
        /\ user_op[u] = "close"
        /\ user_pc[u] = "done"
        /\ from_closed[u] = "closed"
        /\ user_result[u] = "Ok"
        /\ lifecycle = "closed"

\* C30: send and receive on a transport that was not started or was closed
\* fail with NotConnected and change neither the handles nor the processes and
\* their pipes; a receive that finds the end of the stream fails with
\* NotConnected too and returns no line.
C30_NotConnected ==
    [][\A u \in Users :
          /\ (Unconnected /\ (Returns(u, "send") \/ Returns(u, "receive")))
                => /\ user_result'[u] = "NotConnected"
                   /\ UNCHANGED <<handle_vars, lock_vars, process_vars>>
          /\ (Returns(u, "receive") /\ stdout # 0 /\ stdout_pipe[stdout] = <<>>)
                => /\ user_result'[u] = "NotConnected"
                   /\ user_line'[u] = <<>>]_vars

\* A send on the transport before its start has failed with NotConnected, and
\* a receive on the started transport, whose process has exited, has failed
\* with NotConnected at the end of the stream.
C30_Witness ==
    \E u, v \in Users :
        /\ user_op[u] = "send"
        /\ user_result[u] = "NotConnected"
        /\ user_op[v] = "receive"
        /\ user_result[v] = "NotConnected"
        /\ lifecycle = "started"
        /\ stdout # 0
        /\ proc[stdout] = "exited"

\* The fatal read errors on the read stream.
FatalOnStream ==
    {i \in DOMAIN read_stream :
        /\ read_stream[i].type = "Err"
        /\ read_stream[i].payload \in {"TransportClosed", "ChildTerminated"}}

\* The loop of the Session takes a ChildTerminated from the read stream.
TakesChildTerminated ==
    /\ loop = "select"
    /\ read_stream # <<>>
    /\ Head(read_stream) = ReadErr("ChildTerminated")
    /\ shutdown_q = 0
    /\ loop' = "stopped"

\* C27: the monitor task puts one ChildTerminated on the read stream, never
\* more than one and never another fatal kind (the reader task puts none); it
\* does so whenever the receiver of the stream is alive at its send. The loop
\* of a Session that takes it closes the session, stops and fails the pending
\* requests with the text of that kind, which differs from the text of
\* TransportClosed and of InvalidMessage. Once the child has exited the session
\* is eventually closed, through this report or through a failed write that
\* came first. A running loop never finds the read stream ended.
C27_ChildTerminatedOnce ==
    /\ [](terminated_sent <= 1)
    /\ []((loop # "stopped" /\ read_stream = <<>>) => read_open)
    /\ [](\A i \in FatalOnStream :
             read_stream[i] = ReadErr("ChildTerminated") /\ terminated_sent = 1)
    /\ [](Cardinality(FatalOnStream) <= 1)
    /\ [][(monitor = "send" /\ monitor' = "done" /\ ReadStreamAlive)
          => read_stream' = Append(read_stream, ReadErr("ChildTerminated"))]_vars
    /\ [][TakesChildTerminated
          => /\ is_closed'
             /\ response_rx' = SendAll(response_rx, pending_requests,
                                       Err(ReadErrorToString("ChildTerminated")))]_vars
    /\ [](/\ ReadErrorToString("ChildTerminated") # ReadErrorToString("TransportClosed")
          /\ ReadErrorToString("ChildTerminated") # ReadErrorToString("InvalidMessage"))
    /\ (peer = "exited") ~> is_closed

\* The child exited with a request pending; the monitor reported it, the loop
\* took the report and the caller got the text of ChildTerminated.
C27_Witness ==
    /\ peer = "exited"
    /\ monitor = "done"
    /\ terminated_sent = 1
    /\ is_closed
    /\ loop = "stopped"
    /\ \E c \in Callers :
          /\ op[c] = "rpc_call"
          /\ pc[c] = "done"
          /\ result[c] = ReadErrorToString("ChildTerminated")

\* C27 as stated: after the child has exited, a Session that is reading closes
\* by observing the ChildTerminated (and it does close).
C27_Original ==
    /\ (peer = "exited") ~> is_closed
    /\ [][(/\ peer = "exited"
           /\ loop # "stopped"
           /\ shutdown_q = 0
           /\ loop' = "stopped")
          => TakesChildTerminated]_vars

\* The messages among the items of a read stream, in order.
MessagesOf(items) == SelectSeq(items, LAMBDA item : item.type # "Err")

\* What the reader task makes of a sequence of lines.
Parsed(lines) == [i \in DOMAIN lines |-> Deserialize(lines[i])]

\* The messages on their way from the write stream to the client, in the
\* order of the way: taken by the client, buffered in the read stream, held by
\* the reader task, written by the child, written to the child, held by the
\* writer task, buffered in the write stream.
OnTheWay ==
    MessagesOf(received) \o MessagesOf(read_stream) \o MessagesOf(Parsed(reader_line))
        \o MessagesOf(Parsed(peer_stdout)) \o MessagesOf(Parsed(peer_stdin))
        \o writer_msg \o SubSeq(write_stream, taken + 1, Len(write_stream))

\* C28: with a child that echoes its input, the messages the client takes from
\* the read stream are the messages written to the write stream, equal in
\* variant, id and payload and in the same order: what was taken is a prefix of
\* what was written, and as long as the child runs every written message is
\* once on its way or taken, none is lost, duplicated or turned into an
\* InvalidMessage.
C28_RoundTrip ==
    /\ Len(MessagesOf(received)) <= Len(write_stream)
    /\ MessagesOf(received) = SubSeq(write_stream, 1, Len(MessagesOf(received)))
    /\ peer = "running" => OnTheWay = write_stream
    /\ \A i \in DOMAIN received :
          received[i].type = "Err" => received[i] = ReadErr("ChildTerminated")

\* The client wrote a Request and a Response, as the test does, and took both
\* back from the read stream of the running child.
C28_Witness ==
    /\ peer = "running"
    /\ Len(write_stream) = MaxFrames
    /\ received = write_stream
    /\ received[1] = Request(1)
    /\ received[2] = Response({2}, "result")

\* Two URLs have the same origin: scheme, host and port.
SameOrigin(url, base_url) ==
    /\ url.scheme = base_url.scheme
    /\ url.host = base_url.host
    /\ url.port = base_url.port

\* C31: the URL stored as the POST target has the origin (scheme, host and
\* port) of the event stream's URL, and so has the target of every POST made.
C31_SameOriginEndpoint ==
    /\ \A url \in endpoint_url : SameOrigin(url, sse_url)
    /\ \A i \in DOMAIN posted : SameOrigin(posted[i][1], sse_url)

\* C32: connect has returned the streams only with an endpoint stored, and no
\* message was taken from the write stream with the endpoint unknown.
C32_StartAwaitsEndpoint ==
    /\ sse_connect = "connected" => endpoint_url # {}
    /\ sse_message # <<>> => endpoint_url # {}
    /\ discarded = 0

\* The errors a waiter gets because of a transport error: a write failure or a
\* fatal read error.
TransportFailures ==
    {"Transport closed", ReadErrorToString("TransportClosed"),
     ReadErrorToString("ChildTerminated")}

\* The caller has such an error, in its response channel or as the result of
\* its call.
FailedByTransport(c) ==
    \/ \E i \in DOMAIN response_rx[c] :
          ~response_rx[c][i].ok /\ response_rx[c][i].error \in TransportFailures
    \/ pc[c] = "done" /\ result[c] \in TransportFailures

\* C33: the closed flag is set no later than a waiter is failed because of a
\* transport error: whenever a caller has such an error, is_closed is true, and
\* an rpc_call or send_notification invoked from then on returns "Session is
\* closed" at once.
C33_ClosedBeforeFailure ==
    /\ [](\A c \in Callers : FailedByTransport(c) => is_closed)
    /\ [][\A c, d \in Callers :
             (/\ FailedByTransport(d)
              /\ pc[c] = "idle"
              /\ pc'[c] # "idle"
              /\ op'[c] \in {"rpc_call", "send_notification"})
             => (pc'[c] = "done" /\ result'[c] = "Session is closed")]_vars

\* One caller's request failed with the fatal read error; a call made by
\* another returned "Session is closed" without taking an id.
C33_Witness ==
    \E c, d \in Callers :
        /\ op[d] = "rpc_call" /\ pc[d] = "done"
        /\ result[d] = ReadErrorToString("ChildTerminated")
        /\ op[c] = "rpc_call" /\ pc[c] = "done" /\ result[c] = "Session is closed"
        /\ req_id[c] = {}
        /\ is_closed

\* C34: once the Session value is dropped the background task eventually
\* completes, and it completes normally, whatever the read stream does.
C34_DropCompletes ==
    /\ [](loop # "panicked")
    /\ handle_dropped ~> (loop = "stopped")

\* C36: without a close, however the calls of start interleave, at most one
\* child is spawned and the stored handles are those of that child; a start
\* that finds the transport started returns Ok and spawns nothing.
C36_StartIdempotent ==
    /\ [](spawned <= 1)
    /\ [](\A handle \in {child, stdin, stdout} : handle \in {0, 1})
    /\ [][\A u \in Users :
             (user_pc[u] = "start" /\ child # 0 /\ user_pc'[u] # "start")
             => (user_pc'[u] = "done" /\ user_result'[u] = "Ok" /\ spawned' = spawned)]_vars

\* C37: a close that has been called eventually returns, also while another
\* task waits in receive for a line of an idle peer.
C37_CloseReturns ==
    \A u \in Users :
        (user_op[u] = "close" /\ user_pc[u] \notin {"idle", "done"})
            ~> (user_pc[u] = "done")

\* C35: with the transport shared as Arc<Mutex<T>>, a send that has been
\* called completes, also while another task waits in receive for a frame.
C35_SendNotBlockedByReceive ==
    \A u \in Users :
        (user_op[u] = "send" /\ user_pc[u] \notin {"idle", "done"})
            ~> (user_pc[u] = "done")

\* The lines the child has written and the reader task has not yet put on the
\* read stream.
Unread == reader_line \o peer_stdout

InPending(c) == \E i \in DOMAIN pending_requests : pending_requests[i][2] = c

\* C39: the pending list holds no two entries with the same id; an entry for
\* id i is there only if the Request with id i has been forwarded to the write
\* stream and no outcome has been sent to its caller, who still waits for it;
\* an entry leaves the list exactly in the step that sends its caller an
\* outcome.
C39_PendingList ==
    /\ [](\A i, j \in DOMAIN pending_requests :
            pending_requests[i][1] = pending_requests[j][1] => i = j)
    /\ [](\A i \in DOMAIN pending_requests :
            LET id == pending_requests[i][1]
                c  == pending_requests[i][2]
            IN  /\ \E k \in DOMAIN write_stream : write_stream[k] = Request(id)
                /\ req_id[c] = {id}
                /\ pc[c] = "wait"
                /\ response_rx[c] = <<>>)
    /\ [][\A c \in Callers :
             InPending(c) =>
                (~InPending(c)' <=> Len(response_rx'[c]) > Len(response_rx[c]))]_vars

\* Two requests were parked, the Response to one of them has been delivered to
\* its caller and its entry is gone, the other one is still parked.
C39_Witness ==
    \E c, d \in Callers :
        /\ c # d
        /\ InPending(d)
        /\ ~InPending(c)
        /\ pc[c] = "wait"
        /\ response_rx[c] # <<>>
        /\ Head(response_rx[c]).response # {}
        /\ \E k \in DOMAIN write_stream : write_stream[k].id = req_id[c]

====
